---- MODULE Spec2Model ----
(***************************************************************************)
(* EnigmaBridge client (lib/eb-core.js): the ProcessData wire codec, the   *)
(* HTTP connector, and the processData / createUO orchestrators.           *)
(*                                                                         *)
(* Data representation.  A byte-aligned sjcl bitArray is modelled as the   *)
(* sequence of its bytes (0..255), most significant byte first; a hex      *)
(* string is the sequence of its digits (0..15).  A number n is the pair   *)
(* of n \div 65536 and n % 65536, so that all 32 bits of a word and the    *)
(* sign of a signed value are kept.                                        *)
(***************************************************************************)
EXTENDS Integers, Sequences, FiniteSets, TLC

(***************************************************************************)
(* Bounds of the model.                                                    *)
(***************************************************************************)
MaxKey == 2        \* communication keys are drawn from 1..MaxKey
MaxData == 3       \* userData is empty or has MaxData bytes

(***************************************************************************)
(* Program constants.                                                      *)
(***************************************************************************)
SW_STAT_OK == 36864                 \* 0x9000
SW_STAT_INVALID_APIKEY == 32872     \* 0x8000 | 0x068
PDATA_FAIL_CONNECTION == 1
PDATA_FAIL_RESPONSE_FAILED == 2
PDATA_FAIL_RESPONSE_PARSING == 3
REQ_FLAG == 31                      \* 0x1f
RESP_FLAG == 241                    \* 0xf1
NONCE_MANGLE == 16843009            \* 0x01010101
BS == 16                            \* cipher block, bytes

Keys == 1..MaxKey
Num(hi, lo) == [hi |-> hi, lo |-> lo]

UOids == {Num(0, 60929), Num(32768, 1)}        \* 0xEE01, 0x80000001
PlainDatas == {<<90>>}   \* the plain part of a frame
UserData(n) == [i \in 1..n |-> (17 * i) % 256]
UserDatas == {UserData(n) : n \in {0, MaxData}}

(***************************************************************************)
(* Bytes, words, hex.                                                      *)
(***************************************************************************)
Bit(x, i) == (x \div (2^i)) % 2

XorByte(a, b) ==
    LET d(i) == ((Bit(a, i) + Bit(b, i)) % 2) * (2^i)
    IN d(0) + d(1) + d(2) + d(3) + d(4) + d(5) + d(6) + d(7)

\* eb.misc.xor: XOR of two 128-bit blocks
xor(x, y) == [i \in 1..BS |-> XorByte(x[i], y[i])]

\* the low 32 bits of a number, as the four bytes of a word
WordToBytes(w) ==
    <<(w.hi \div 256) % 256, w.hi % 256, w.lo \div 256, w.lo % 256>>

\* a word read as an unsigned number
BytesToWord(b) == Num(b[1] * 256 + b[2], b[3] * 256 + b[4])

\* a word read as the signed number the 32-bit operators give
BytesToInt32(b) ==
    LET u == BytesToWord(b)
    IN IF u.hi >= 32768 THEN Num(u.hi - 65536, u.lo) ELSE u

\* x - y and x + y on numbers, kept to 32 bits
subWord(x, y) ==
    LET lo == x.lo - y.lo
    IN Num((x.hi - y.hi - (IF lo < 0 THEN 1 ELSE 0)) % 65536, lo % 65536)

addWord(x, y) ==
    LET lo == x.lo + y.lo
    IN Num((x.hi + y.hi + (IF lo >= 65536 THEN 1 ELSE 0)) % 65536, lo % 65536)

\* sjcl.codec.hex.fromBits / toBits on byte-aligned data
hexFromBits(b) ==
    [i \in 1..(2 * Len(b)) |->
        IF i % 2 = 1 THEN b[(i + 1) \div 2] \div 16 ELSE b[i \div 2] % 16]

hexToBits(h) ==
    [i \in 1..(Len(h) \div 2) |-> h[2 * i - 1] * 16 + h[2 * i]]

\* sjcl.bitArray.bitSlice on byte offsets: bytes from..to-1 (0-based), cut
\* at the end of the array
byteSlice(a, from, to) ==
    IF from >= Len(a) \/ to <= from THEN <<>>
    ELSE SubSeq(a, from + 1, IF to > Len(a) THEN Len(a) ELSE to)

ZeroBlock == [i \in 1..BS |-> 0]

(***************************************************************************)
(* The block cipher.  sjcl.cipher.aes is a library primitive; all the      *)
(* codec relies on is that encrypt under a key is a permutation of the     *)
(* 128-bit blocks with decrypt as its inverse.  The stand-in rotates the   *)
(* block by one byte and adds a key- and position-dependent constant.      *)
(***************************************************************************)
aesEncrypt(k, b) == [i \in 1..BS |-> (b[(i % BS) + 1] + 7 * k + i) % 256]

aesDecrypt(k, c) ==
    [j \in 1..BS |->
        LET i == ((j + BS - 2) % BS) + 1
        IN (c[i] + 512 - 7 * k - i) % 256]

(***************************************************************************)
(* eb.padding.pkcs7                                                        *)
(***************************************************************************)
pkcs7pad(a) ==
    LET padLen == BS - (Len(a) % BS)
    IN a \o [i \in 1..padLen |-> padLen]

\* a padding check that accepts every tail
pkcs7okAny(a) == TRUE

\* the check made by sjcl.mode.cbc.decrypt on the decrypted data
pkcs7ok(a) ==
    /\ Len(a) > 0
    /\ Len(a) % BS = 0
    /\ LET bi == a[Len(a)]
       IN /\ bi # 0
          /\ bi <= BS
          /\ \A i \in (Len(a) - bi + 1)..Len(a) : a[i] = bi

pkcs7strip(a) == SubSeq(a, 1, Len(a) - a[Len(a)])

(***************************************************************************)
(* sjcl.mode.cbc and sjcl.misc.hmac_cbc                                    *)
(***************************************************************************)
Block(a, n) == SubSeq(a, BS * (n - 1) + 1, BS * n)

RECURSIVE cbcChain(_, _, _, _)
\* the n-th ciphertext block of a under key k and initial vector c
cbcChain(k, a, c, n) ==
    IF n = 0 THEN c
    ELSE aesEncrypt(k, xor(cbcChain(k, a, c, n - 1), Block(a, n)))

RECURSIVE cbcEncBlocks(_, _, _, _)
cbcEncBlocks(k, a, c, n) ==
    IF n > Len(a) \div BS THEN <<>>
    ELSE LET cn == aesEncrypt(k, xor(c, Block(a, n)))
         IN cn \o cbcEncBlocks(k, a, cn, n + 1)

\* sjcl.mode.cbc.encrypt(aes, b, IV, [], true): whole blocks only
cbcEncrypt(k, a) == cbcEncBlocks(k, a, ZeroBlock, 1)

RECURSIVE cbcDecBlocks(_, _, _, _)
cbcDecBlocks(k, b, c, n) ==
    IF n > Len(b) \div BS THEN <<>>
    ELSE xor(c, aesDecrypt(k, Block(b, n))) \o cbcDecBlocks(k, b, Block(b, n), n + 1)

\* the raw output of sjcl.mode.cbc.decrypt before the padding is looked at
cbcDecryptRaw(k, b) == cbcDecBlocks(k, b, ZeroBlock, 1)

\* a tag that does not depend on the data
hmacCbcMacOfNothing(k, data) == aesEncrypt(k, ZeroBlock)

\* sjcl.misc.hmac_cbc.mac with eb.padding.empty: the last block of the CBC
\* chain over the whole blocks of data, the zero block for no block
hmacCbcMac(k, data) == cbcChain(k, data, ZeroBlock, Len(data) \div BS)

\* the request nonces, as 16 hex digits: aaaabbbbccccdddd, 00000000ffffffff
Nonces ==
    {hexFromBits(WordToBytes(Num(43690, 48059)) \o WordToBytes(Num(52428, 56797))),
     hexFromBits(WordToBytes(Num(0, 0)) \o WordToBytes(Num(65535, 65535)))}

(***************************************************************************)
(* eb.comm.demangleNonce on a byte-aligned nonce.  Every whole 32-bit word *)
(* has 0x01010101 subtracted modulo 2^32.  The loop leaves bp + 32 > bl,   *)
(* so the early return is never taken: for a tail of t bytes (rbl = 8t+32, *)
(* shifts are taken modulo 32) the tail word has the high 8t bits of the   *)
(* constant subtracted and is shifted right by 8t bits, and clamp keeps    *)
(* the high 8t bits of that.                                               *)
(***************************************************************************)
MangleNum == Num(NONCE_MANGLE \div 65536, NONCE_MANGLE % 65536)

demangleWord(w) == subWord(w, MangleNum)

demangleTail(tail) ==
    LET t == Len(tail)
        top == BytesToWord(tail \o [i \in 1..(4 - t) |-> 0])
        sub == BytesToWord([i \in 1..4 |-> IF i <= t THEN WordToBytes(MangleNum)[i] ELSE 0])
        c == [i \in 1..t |-> 0] \o SubSeq(WordToBytes(subWord(top, sub)), 1, 4 - t)
    IN SubSeq(c, 1, t)

RECURSIVE demangleNonce(_)
demangleNonce(nonce) ==
    IF Len(nonce) >= 4
    THEN WordToBytes(demangleWord(BytesToWord(SubSeq(nonce, 1, 4))))
            \o demangleNonce(SubSeq(nonce, 5, Len(nonce)))
    ELSE IF Len(nonce) = 0 THEN <<>> ELSE demangleTail(nonce)

\* sjcl.bitArray.extract32(a, 8): the four bytes after the first one, as
\* the signed 32-bit integer that << and ^ produce
extract32(a) ==
    BytesToInt32(byteSlice(a, 1, 5) \o [i \in 1..(4 - Len(byteSlice(a, 1, 5))) |-> 0])

(***************************************************************************)
(* eb.comm.processDataRequestBodyBuilder.build                             *)
(***************************************************************************)
RECURSIVE hexDigits(_)
hexDigits(n) == IF n < 16 THEN <<n>> ELSE hexDigits(n \div 16) \o <<n % 16>>

\* sprintf("%04X", n): at least four digits
sprintf04X(n) ==
    LET d == hexDigits(n)
    IN [i \in 1..(IF Len(d) < 4 THEN 4 - Len(d) ELSE 0) |-> 0] \o d

\* PDIN with its padding, before encryption
buildPDIN(userObjectId, nonce, requestData) ==
    pkcs7pad(<<REQ_FLAG>> \o WordToBytes(userObjectId) \o hexToBits(nonce) \o requestData)

\* the arguments of the sprintf that makes requestBase, for plain data of
\* plainDataLength bytes whose hex form is plainHex
requestBaseArgs(in, plainDataLength, plainHex) ==
    LET baBuff == buildPDIN(in.userObjectId, in.nonce, in.requestData)
        encryptedData == cbcEncrypt(in.aesKey, baBuff)
        hmacData == hmacCbcMac(in.macKey, encryptedData)
    IN [reqType |-> in.reqType, plainDataLength |-> sprintf04X(plainDataLength),
        plainData |-> plainHex, encryptedData |-> hexFromBits(encryptedData),
        hmacData |-> hexFromBits(hmacData)]

build(in) ==
    LET a == requestBaseArgs(in, Len(in.plainData), hexFromBits(in.plainData))
    IN [reqType |-> a.reqType,
        hex |-> a.plainDataLength \o a.plainData \o a.encryptedData \o a.hmacData]

(***************************************************************************)
(* The ProcessData service seen from the client: it opens the request      *)
(* frame, answers with flag 0xF1, the same UOid, the nonce with 0x01010101 *)
(* added to each 32-bit word and the user data as protected data, and      *)
(* encrypts and MACs the answer under the keys of the user object.         *)
(***************************************************************************)
mangleWord(w) == addWord(w, MangleNum)

wirePlainLen(body) == body[1] * 256 + body[2]

loopbackFrame(wire, aesKey) ==
    LET body == hexToBits(wire.hex)
        prot == byteSlice(body, 2 + wirePlainLen(body), Len(body))
        pdin == pkcs7strip(cbcDecryptRaw(aesKey, byteSlice(prot, 0, Len(prot) - BS)))
        n1 == BytesToWord(SubSeq(pdin, 6, 9))
        n2 == BytesToWord(SubSeq(pdin, 10, 13))
    IN <<IF pdin[1] = REQ_FLAG THEN RESP_FLAG ELSE pdin[1]>> \o SubSeq(pdin, 2, 5)
          \o WordToBytes(mangleWord(n1)) \o WordToBytes(mangleWord(n2))
          \o SubSeq(pdin, 14, Len(pdin))

loopback(wire, aesKey, macKey, status) ==
    LET body == hexToBits(wire.hex)
        head == byteSlice(body, 0, 2 + wirePlainLen(body))
        ct == cbcEncrypt(aesKey, pkcs7pad(loopbackFrame(wire, aesKey)))
    IN [status |-> status, function |-> "ProcessData",
        result |-> [hex |-> hexFromBits(head \o ct \o hmacCbcMac(macKey, ct)),
                    sep |-> TRUE]]

(***************************************************************************)
(* State.                                                                  *)
(***************************************************************************)
VARIABLES
    input,        \* what the request body builder was constructed with
    requestBase,  \* the wire string returned by build
    rawResponse,  \* connector.rawResponse: the JSON body the service sent
    env,          \* how the service produced rawResponse
    ppc,          \* position of processDataResponseParser.parse
    resp,         \* the processDataResponse object handed to the parser
    ops,          \* cryptographic operations done by parse, in order
    hook,         \* callback invoked by connector.processAnswer
    thrown        \* the exception parse has thrown

codecVars == <<input, requestBase, rawResponse, env, ppc, resp, ops, hook, thrown>>

(***************************************************************************)
(* State of one call of a client object: eb.client.processData or          *)
(* eb.client.createUO, its retry handler and its promise.                  *)
(***************************************************************************)
VARIABLES
    client,       \* which client object the call is made on
    valid,        \* the call has what it needs: data to process / a UO type
    maxAttempts,  \* retryHandler: the configured maxAttempts
    attempts,     \* retryHandler: attempts made since the last reset
    timer,        \* retryHandler: the thunk its pending timer will run
    request,      \* the request object the client holds: request, tplRequest, impRequest
    flight,       \* the request was sent and its exchange is not completed
    promise,      \* the promise call() returned
    keys,         \* createUO: this.keys
    rng,          \* values drawn from sjcl.random so far
    tplResponse,  \* createUO: the response held by the stage 2 closures
    fetched,      \* templates received with status 0x9000 in this call
    sent,         \* number of HTTP requests sent by this call
    last,         \* the last completed exchange and what it led to
    failures,     \* failed template exchanges; failed import exchanges in a row
    cancelled     \* when cancel() was called, and the requests sent by then

callVars == <<client, valid, maxAttempts, attempts, timer, request, flight, promise, keys,
              rng, tplResponse, fetched, sent, last, failures, cancelled>>

(***************************************************************************)
(* Objects that outlive one request: the defaults records the request       *)
(* classes keep on their prototypes, and the last request built.            *)
(***************************************************************************)
VARIABLES
    defaults,     \* the defaults objects of the prototypes, by request class
    built         \* the last request built: the data given to it and its body

objVars == <<defaults, built>>

(***************************************************************************)
(* Client objects and the Configuration the caller gave them.              *)
(***************************************************************************)
VARIABLES
    configuration, \* the Configuration object passed as options.config
    constructed,   \* the field values the caller constructed it with
    pd,            \* an eb.client.processData object and its request object
    cu,            \* an eb.client.createUO object and its template request
    out            \* what the last call() of the processData client did

cliVars == <<configuration, constructed, pd, cu, out>>

(***************************************************************************)
(* One application of a library function that keeps no state of its own:   *)
(* what it was applied to and what it gave back.                           *)
(***************************************************************************)
VARIABLES
    subject,      \* the arguments, and the objects passed in
    returned      \* the values returned or thrown, and the objects afterwards

fnVars == <<subject, returned>>

vars == <<codecVars, callVars, objVars, cliVars, fnVars>>

None == [none |-> TRUE]

\* a field of the response object: the prototype default or an assigned value
Unset == [set |-> FALSE, v |-> <<>>]

Val(x) == [set |-> TRUE, v |-> x]

\* a fresh eb.comm.processDataResponse
NewResponse ==
    [statusCode |-> 0, mac |-> Unset, computedMac |-> Unset, plainData |-> Unset,
     protectedData |-> Unset, nonce |-> Unset, userObjectID |-> Num(0, 0)]

(***************************************************************************)
(* Values of the call state                                                *)
(***************************************************************************)
MaxAttempts == 2   \* maxAttempts of the retry handler is in 1..MaxAttempts
MaxRequests == 5   \* one call sends at most MaxRequests HTTP requests

\* this.keys === undefined
NoKeys == [undefined |-> TRUE]

NoPromise == [state |-> "none", value |-> None]

Pending == [state |-> "pending", value |-> None]

Resolved(v) == [state |-> "resolved", value |-> v]

Rejected(v) == [state |-> "rejected", value |-> v]

\* resolve and reject settle a promise once
settle(p, outcome) == IF p.state = "pending" THEN outcome ELSE p

NotCancelled == [when |-> "no", sent |-> 0]

NoExchange ==
    [kind |-> "none", outcome |-> "none", failType |-> 0, effect |-> "none", hooks |-> <<>>]

\* the n-th value drawn from sjcl.random
Random(n) == 100 + n

(***************************************************************************)
(* Values of request data.  A value carries its JavaScript type; a hex     *)
(* string is held as the sequence of its digits.                           *)
(***************************************************************************)
Undefined == [typeof |-> "undefined"]

Str(s) == [typeof |-> "string", s |-> s]

NumVal(n) == [typeof |-> "number", n |-> n]

\* ebextend(true, target, source) on request data: the members of source
\* that are not undefined are written into target
mergeInto(target, source) ==
    [n \in DOMAIN target \cup DOMAIN source |->
        IF n \in DOMAIN source /\ (n \notin DOMAIN target \/ source[n] # Undefined)
        THEN source[n] ELSE target[n]]

\* eb.misc.inputToHex: a number is printed with %x, a hex string is kept
inputToHex(x) == IF x.typeof = "number" THEN Str(hexDigits(x.n)) ELSE x

\* getUOTemplateRequest.prototype.defaults
TplDefaults ==
    [type |-> NumVal(4), environment |-> Str("dev"), maxtps |-> Str("one")]

\* importUORequest.prototype.defaults
ImpDefaults ==
    [objectid |-> Undefined, object |-> Undefined, authorization |-> Str("")]

\* newHotpUserRequestBuilder.prototype.defaults, of which
\* newHotpUserRequest.prototype.authConfig is a copy made at load
HotpDefaults == [userId |-> Undefined, digits |-> NumVal(6)]

\* updateAuthContextRequestBuilder.prototype.defaults
UpdDefaults == [userId |-> Undefined, userCtx |-> Undefined, targetMethod |-> Undefined]

ObjIdle ==
    /\ defaults = [tpl |-> TplDefaults, imp |-> ImpDefaults, hotp |-> HotpDefaults,
                   auth |-> HotpDefaults, upd |-> UpdDefaults]
    /\ built = [kind |-> "none", given |-> <<>>, data |-> <<>>]

FnIdle ==
    /\ subject = None
    /\ returned = None

CliIdle ==
    /\ configuration = None
    /\ constructed = None
    /\ pd = None
    /\ cu = None
    /\ out = None

CallIdle ==
    /\ client = "none"
    /\ valid = FALSE
    /\ maxAttempts = 1
    /\ attempts = 0
    /\ timer = "none"
    /\ request = None
    /\ flight = FALSE
    /\ promise = NoPromise
    /\ keys = NoKeys
    /\ rng = 0
    /\ tplResponse = None
    /\ fetched = {}
    /\ sent = 0
    /\ last = NoExchange
    /\ failures = [tpl |-> 0, imp |-> 0]
    /\ cancelled = NotCancelled

CodecIdle ==
    /\ input = None
    /\ requestBase = None
    /\ rawResponse = None
    /\ env = "none"
    /\ ppc = "idle"
    /\ resp = NewResponse
    /\ ops = <<>>
    /\ hook = [fired |-> "none", failType |-> 0]
    /\ thrown = [type |-> "none", msg |-> ""]

Inputs ==
    [aesKey : Keys, macKey : Keys, userObjectId : UOids, nonce : Nonces,
     requestData : UserDatas, plainData : PlainDatas, reqType : {"PLAINAES"}]

CodecInit ==
    /\ input \in Inputs
    /\ requestBase = None
    /\ rawResponse = None
    /\ env = "none"
    /\ ppc = "idle"
    /\ resp = NewResponse
    /\ ops = <<>>
    /\ hook = [fired |-> "none", failType |-> 0]
    /\ thrown = [type |-> "none", msg |-> ""]
    /\ CallIdle
    /\ ObjIdle
    /\ CliIdle
    /\ FnIdle

(***************************************************************************)
(* The request is built, and the service answers.                          *)
(***************************************************************************)
BuildRequest ==
    /\ requestBase = None
    /\ requestBase' = build(input)
    /\ UNCHANGED <<input, rawResponse, env, ppc, resp, ops, hook, thrown>>
    /\ UNCHANGED <<callVars, objVars, cliVars, fnVars>>

\* the answer to this request
ServerLoopback ==
    /\ requestBase # None
    /\ rawResponse = None
    /\ rawResponse' = loopback(requestBase, input.aesKey, input.macKey, SW_STAT_OK)
    /\ env' = "loopback"
    /\ UNCHANGED <<input, requestBase, ppc, resp, ops, hook, thrown>>
    /\ UNCHANGED <<callVars, objVars, cliVars, fnVars>>

\* the answer to another request on the same user object keys: another
\* nonce, another UOid, or both
ServerReplay ==
    /\ requestBase # None
    /\ rawResponse = None
    /\ \E n \in Nonces, u \in UOids :
          /\ <<n, u>> # <<input.nonce, input.userObjectId>>
          /\ rawResponse' =
                loopback(build([input EXCEPT !.nonce = n, !.userObjectId = u]),
                         input.aesKey, input.macKey, SW_STAT_OK)
    /\ env' = "replay"
    /\ UNCHANGED <<input, requestBase, ppc, resp, ops, hook, thrown>>
    /\ UNCHANGED <<callVars, objVars, cliVars, fnVars>>

\* a failed status around a well-formed body
ServerFailed ==
    /\ requestBase # None
    /\ rawResponse = None
    /\ rawResponse' =
          loopback(requestBase, input.aesKey, input.macKey, SW_STAT_INVALID_APIKEY)
    /\ env' = "failed"
    /\ UNCHANGED <<input, requestBase, ppc, resp, ops, hook, thrown>>
    /\ UNCHANGED <<callVars, objVars, cliVars, fnVars>>

\* the hex digit d with bit b (0 = lowest) flipped
flipDigit(d, b) == IF Bit(d, b) = 1 THEN d - 2^b ELSE d + 2^b

\* digits of the response body before CT and before TAG
ctStart(hex) == 4 + 2 * wirePlainLen(hexToBits(hex))

tagStart(hex) == Len(hex) - 2 * BS

\* one bit of CT or of TAG of a valid response is flipped on the way
FlipBit ==
    /\ env = "loopback"
    /\ ppc = "idle"
    /\ \E i \in (ctStart(rawResponse.result.hex) + 1)..Len(rawResponse.result.hex),
          b \in 0..3 :
          /\ rawResponse' =
                [rawResponse EXCEPT !.result.hex[i] = flipDigit(@, b)]
          /\ env' = IF i <= tagStart(rawResponse.result.hex) THEN "flipCT" ELSE "flipTAG"
    /\ UNCHANGED <<input, requestBase, ppc, resp, ops, hook, thrown>>
    /\ UNCHANGED <<callVars, objVars, cliVars, fnVars>>

\* a response whose authenticated frame deviates from the format: the last
\* padding byte is zero, or the first byte is not the response flag
malformed(wire, aesKey, macKey, how) ==
    LET body == hexToBits(wire.hex)
        head == byteSlice(body, 0, 2 + wirePlainLen(body))
        padded == pkcs7pad(loopbackFrame(wire, aesKey))
        frame == IF how = "badPad" THEN [padded EXCEPT ![Len(padded)] = 0]
                 ELSE [padded EXCEPT ![1] = REQ_FLAG]
        ct == cbcEncrypt(aesKey, frame)
    IN [status |-> SW_STAT_OK, function |-> "ProcessData",
        result |-> [hex |-> hexFromBits(head \o ct \o hmacCbcMac(macKey, ct)),
                    sep |-> TRUE]]

ServerMalformed ==
    /\ requestBase # None
    /\ rawResponse = None
    /\ \E how \in {"badPad", "badFlag"} :
          /\ rawResponse' = malformed(requestBase, input.aesKey, input.macKey, how)
          /\ env' = how
    /\ UNCHANGED <<input, requestBase, ppc, resp, ops, hook, thrown>>
    /\ UNCHANGED <<callVars, objVars, cliVars, fnVars>>

\* a valid response cut short: the last byte is lost, so that CT is not a
\* whole number of blocks, or all but TagRest bytes of CT and TAG are lost
TagRest == 5

Truncate ==
    /\ env = "loopback"
    /\ ppc = "idle"
    /\ LET hex == rawResponse.result.hex
       IN \E keep \in {ctStart(hex) + 2 * TagRest, Len(hex) - 2} :
             /\ rawResponse' = [rawResponse EXCEPT !.result.hex = SubSeq(hex, 1, keep)]
             /\ env' = IF keep = Len(hex) - 2 THEN "shortCT" ELSE "shortTAG"
    /\ UNCHANGED <<input, requestBase, ppc, resp, ops, hook, thrown>>
    /\ UNCHANGED <<callVars, objVars, cliVars, fnVars>>

(***************************************************************************)
(* eb.comm.processDataResponseParser.parse, step by step, as called by     *)
(* connector.processAnswer.                                                *)
(***************************************************************************)
\* resultBuffer.substring(0, resultBuffer.indexOf("_")) as bits
baResult(data) == hexToBits(IF data.result.sep THEN data.result.hex ELSE <<>>)

\* ba.extract(baResult, 0, 16); absent bytes read as zero
plainLenOf(ba) ==
    (IF Len(ba) >= 1 THEN ba[1] * 256 ELSE 0) + (IF Len(ba) >= 2 THEN ba[2] ELSE 0)

plainBitsOf(ba) == byteSlice(ba, 2, 2 + plainLenOf(ba))

protectedBitsOf(ba) == byteSlice(ba, 2 + plainLenOf(ba), Len(ba))

\* bitSlice(protectedBits, 0, macTagOffset); nothing for a negative offset
dataToMacOf(prot) == byteSlice(prot, 0, Len(prot) - BS)

\* bitSlice(protectedBits, macTagOffset); for a negative offset what there is
macOf(prot) == IF Len(prot) < BS THEN prot ELSE byteSlice(prot, Len(prot) - BS, Len(prot))

\* a status check that every response passes
isCodeOkAlways(r) == TRUE

\* eb.comm.response.isCodeOk, the test of responseParser.success
isCodeOk(r) == r.statusCode = SW_STAT_OK

\* processAnswer takes a fresh response object; parseCommonHeaders fills the
\* status in, and a status other than 0x9000 ends the parsing
ParseHeaders ==
    /\ rawResponse # None
    /\ ppc = "idle"
    /\ resp' = [NewResponse EXCEPT !.statusCode = rawResponse.status]
    /\ ppc' = IF isCodeOk(resp') THEN "split" ELSE "returned"
    /\ UNCHANGED <<input, requestBase, rawResponse, env, ops, hook, thrown>>
    /\ UNCHANGED <<callVars, objVars, cliVars, fnVars>>

NoThrow == [type |-> "none", msg |-> ""]

Corrupt(msg) == [type |-> "corrupt", msg |-> msg]

\* the body is cut into plain data, CT and TAG and the lengths are checked
ParseSplit ==
    /\ ppc = "split"
    /\ LET prot == protectedBitsOf(baResult(rawResponse))
       IN IF Len(dataToMacOf(prot)) % BS # 0
          THEN /\ ppc' = "thrown"
               /\ thrown' = Corrupt("Padding size invalid")
               /\ resp' = resp
          ELSE /\ resp' = [resp EXCEPT !.mac = Val(macOf(prot))]
               /\ IF Len(macOf(prot)) # BS
                  THEN ppc' = "thrown" /\ thrown' = Corrupt("MAC corrupted")
                  ELSE ppc' = "mac" /\ thrown' = thrown
    /\ UNCHANGED <<input, requestBase, rawResponse, env, ops, hook>>
    /\ UNCHANGED <<callVars, objVars, cliVars, fnVars>>

\* a comparison that lets every tag pass
macMatchesAny(mac, computedMac) == TRUE

\* resp.mac && ba.equal(resp.mac, resp.computedMac)
macMatches(mac, computedMac) == mac = computedMac

\* the CBC-MAC over CT is computed and compared with TAG
VerifyMac ==
    /\ ppc = "mac"
    /\ LET prot == protectedBitsOf(baResult(rawResponse))
           computedMac == hmacCbcMac(input.macKey, dataToMacOf(prot))
       IN /\ resp' = [resp EXCEPT !.computedMac = Val(computedMac)]
          /\ IF macMatches(resp.mac.v, computedMac)
             THEN ppc' = "decrypt" /\ thrown' = thrown
             ELSE ppc' = "thrown" /\ thrown' = Corrupt("Padding is not valid")
    /\ ops' = Append(ops, "mac")
    /\ UNCHANGED <<input, requestBase, rawResponse, env, hook>>
    /\ UNCHANGED <<callVars, objVars, cliVars, fnVars>>

\* sjcl.mode.cbc.decrypt with the padding check; no block, no decryption
Decrypt ==
    /\ ppc = "decrypt"
    /\ LET dataToDecrypt == dataToMacOf(protectedBitsOf(baResult(rawResponse)))
       IN IF Len(dataToDecrypt) = 0
          THEN /\ ppc' = "thrown"
               /\ thrown' = Corrupt("cbc ciphertext must be a positive multiple of the block size")
               /\ ops' = ops
          ELSE /\ ops' = ops \o <<"decrypt", "unpad">>
               /\ IF pkcs7ok(cbcDecryptRaw(input.aesKey, dataToDecrypt))
                  THEN ppc' = "flag" /\ thrown' = thrown
                  ELSE ppc' = "thrown" /\ thrown' = Corrupt("pkcs#5 padding corrupt")
    /\ UNCHANGED <<input, requestBase, rawResponse, env, resp, hook>>
    /\ UNCHANGED <<callVars, objVars, cliVars, fnVars>>

decryptedDataOf(data, aesKey) ==
    pkcs7strip(cbcDecryptRaw(aesKey, dataToMacOf(protectedBitsOf(baResult(data)))))

\* the response flag is checked and the fields are taken out
Extract ==
    /\ ppc = "flag"
    /\ LET decryptedData == decryptedDataOf(rawResponse, input.aesKey)
           responseFlag == IF Len(decryptedData) = 0 THEN 0 ELSE decryptedData[1]
       IN IF responseFlag # RESP_FLAG
          THEN /\ ppc' = "thrown"
               /\ thrown' = Corrupt("Given data packet is not a response (flag mismatch)")
               /\ resp' = resp
          ELSE /\ ppc' = "returned"
               /\ thrown' = thrown
               /\ resp' = [resp EXCEPT
                     !.userObjectID = extract32(decryptedData),
                     !.nonce = Val(demangleNonce(byteSlice(decryptedData, 5, 13))),
                     !.protectedData = Val(byteSlice(decryptedData, 13, Len(decryptedData))),
                     !.plainData = Val(plainBitsOf(baResult(rawResponse)))]
    /\ UNCHANGED <<input, requestBase, rawResponse, env, ops, hook>>
    /\ UNCHANGED <<callVars, objVars, cliVars, fnVars>>

\* connector.processAnswer after parse: done for a 0x9000 response, fail
\* with ResponseFailed for another status, fail with ParseFailure for a throw
ProcessAnswerEnd ==
    /\ ppc \in {"returned", "thrown"}
    /\ hook' =
          IF ppc = "thrown"
          THEN [fired |-> "fail", failType |-> PDATA_FAIL_RESPONSE_PARSING]
          ELSE IF isCodeOk(resp)
               THEN [fired |-> "done", failType |-> 0]
               ELSE [fired |-> "fail", failType |-> PDATA_FAIL_RESPONSE_FAILED]
    /\ ppc' = "end"
    /\ UNCHANGED <<input, requestBase, rawResponse, env, resp, ops, thrown>>
    /\ UNCHANGED <<callVars, objVars, cliVars, fnVars>>

CodecNext ==
    \/ BuildRequest
    \/ ServerLoopback
    \/ ServerReplay
    \/ ServerFailed
    \/ FlipBit
    \/ ServerMalformed
    \/ Truncate
    \/ ParseHeaders
    \/ ParseSplit
    \/ VerifyMac
    \/ Decrypt
    \/ Extract
    \/ ProcessAnswerEnd

SpecCodec == CodecInit /\ [][CodecNext]_vars

(***************************************************************************)
(* RetryHandler (./eb-util-retry), by its contract: reset() forgets the    *)
(* attempts, retry(thunk) counts one attempt and schedules thunk,          *)
(* limitReached() is true once the attempts have reached maxAttempts.      *)
(***************************************************************************)
reset(a) == 0

\* a template handler that leaves the retry handler as stage 1 left it
onTemplateFetchedKeeps(a) == a

\* onEbOpSuccess of call resets the retry handler and onTemplateFetched_
\* resets it again before stage 2 starts
onTemplateFetchedReset(a) == reset(reset(a))

retry(a) == a + 1

limitReached(a, max) == a >= max

\* ebextend(true, target, source): source's members over target's, an
\* undefined source adds nothing
ebextend(target, source) ==
    IF source = NoKeys THEN target
    ELSE [n \in DOMAIN target \cup DOMAIN source |->
             IF n \in DOMAIN source THEN source[n] ELSE target[n]]

\* eb.misc.isDefined(src, key)
isDefined(src, key) == src # NoKeys /\ key \in DOMAIN src

(***************************************************************************)
(* The templates the enrollment service may hand out: with two RSA import  *)
(* keys, and with no import key at all.                                    *)
(***************************************************************************)
KeyTypes == {"comenc", "commac", "comnextenc", "comnextmac"}

Templates ==
    {[objectid |-> 1, authorization |-> 11, keyoffsets |-> KeyTypes,
      importkeys |-> <<[id |-> 7, type |-> "rsa1024"], [id |-> 8, type |-> "rsa2048"]>>],
     [objectid |-> 2, authorization |-> 12, keyoffsets |-> KeyTypes,
      importkeys |-> <<>>]}

Handles == {[apiKey |-> "TEST_API", uoId |-> 5, uoType |-> 3]}

Min(S) == CHOOSE x \in S : \A y \in S : x <= y

\* templateFiller._getBestImportKey: the first rsa2048 key, else the first
\* rsa1024 key, else undefined
getBestImportKey(importKeys) ==
    LET kRsa2048 == {i \in DOMAIN importKeys : importKeys[i].type = "rsa2048"}
        kRsa1024 == {i \in DOMAIN importKeys : importKeys[i].type = "rsa1024"}
    IN IF kRsa2048 # {} THEN importKeys[Min(kRsa2048)]
       ELSE IF kRsa1024 # {} THEN importKeys[Min(kRsa1024)]
       ELSE None

\* a filler that keeps the transport keys it drew first
templateFillerKeepsKeys(template, givenKeys, r) ==
    LET ks == IF givenKeys = NoKeys THEN <<>> ELSE givenKeys
        patched == [n \in DOMAIN ks \cap template.keyoffsets |-> ks[n]]
        iKey == getBestImportKey(template.importkeys)
        tek == Random(1)
        tmk == Random(2)
    IN [threw |-> iKey = None,
        rng |-> r + 2,
        uo |-> [objectid |-> template.objectid, keys |-> patched,
                tek |-> tek, tmk |-> tmk,
                wrapped |-> <<template.objectid, tek, tmk>>],
        keyUsed |-> iKey]

\* templateFiller.build: the keys given are patched into the slots of the
\* template, TEK and TMK are drawn, the blob is encrypted under TEK and
\* MACed under TMK, and objectid, TEK and TMK are wrapped for the import
\* key in the 0xA1 record; _rsaEncrypt throws for an undefined import key
templateFillerBuild(template, givenKeys, r) ==
    LET ks == IF givenKeys = NoKeys THEN <<>> ELSE givenKeys
        patched == [n \in DOMAIN ks \cap template.keyoffsets |-> ks[n]]
        iKey == getBestImportKey(template.importkeys)
        tek == Random(r + 1)
        tmk == Random(r + 2)
    IN [threw |-> iKey = None,
        rng |-> r + 2,
        uo |-> [objectid |-> template.objectid, keys |-> patched,
                tek |-> tek, tmk |-> tmk,
                wrapped |-> <<template.objectid, tek, tmk>>],
        keyUsed |-> iKey]

\* processData client: the request object, built once
pdRequest(r) == [kind |-> "ProcessData", nonce |-> Random(r + 1)]

\* an ebOp_ that builds the request again
ebOpRebuilt(held, r) == pdRequest(r)

\* processData.ebOp_: this.request.doRequest() on the request object the
\* client holds; doRequest builds only when there is no reqBody, and
\* getNonce generates only when there is no nonce
ebOpRequest(held, r) == held

\* createUO.hasCommKey_
hasCommKey(k) == k # NoKeys /\ "comenc" \in DOMAIN k /\ "commac" \in DOMAIN k

\* createUO.getTpl_: a new template request with the generation flags
getTplRequest(k, r) ==
    [kind |-> "GetUserObjectTemplate", nonce |-> Random(r + 1),
     commkey |-> IF hasCommKey(k) THEN "CLIENT" ELSE "LEGACY_RANDOM"]

\* request data that names no template
importRequestDataOfNone(templateResponse, buildReq) ==
    [objectid |-> 0, importkey |-> 0, object |-> buildReq.uo, authorization |-> 0]

\* createUO.importUo_: the request data of a new import request
importRequestData(templateResponse, buildReq) ==
    [objectid |-> templateResponse.objectid,
     importkey |-> buildReq.keyUsed.id,
     object |-> buildReq.uo,
     authorization |-> templateResponse.authorization]

\* createUO.importUoWithResponse_: the next keys are added when one of them
\* is missing, this.keys is assigned the local keys, the filler builds the
\* blob and importUo_ sends it
importUoWithResponse(response, k, r) ==
    LET needNext == ~isDefined(k, "comnextenc") \/ ~isDefined(k, "comnextmac")
        newKeys == IF needNext
                   THEN ebextend([comnextenc |-> Random(r + 1),
                                  comnextmac |-> Random(r + 2)], k)
                   ELSE NoKeys
        r2 == IF needNext THEN r + 2 ELSE r
        buildReq == templateFillerBuild(response, newKeys, r2)
    IN [keys |-> newKeys,
        threw |-> buildReq.threw,
        rng |-> IF buildReq.threw THEN buildReq.rng ELSE buildReq.rng + 1,
        request |-> IF buildReq.threw THEN None
                    ELSE [kind |-> "CreateUserObject",
                          nonce |-> Random(buildReq.rng + 1),
                          data |-> importRequestData(response, buildReq)]]

(***************************************************************************)
(* The calls.  An HTTP exchange ends in one of five ways: "ok" (status      *)
(* 0x9000 and a body that parses), "failed" (status, function and result   *)
(* present, status other than 0x9000), "noresult" (status and function     *)
(* present, status other than 0x9000, no result field), "garbage" (a body  *)
(* without status or function, or one whose protected data does not        *)
(* verify) and "conn" (transport failure, timeout).                        *)
(***************************************************************************)
Outcomes == {"ok", "failed", "noresult", "garbage", "conn"}

RequestTypes == {"ProcessData", "GetUserObjectTemplate", "CreateUserObject",
                 "GetImportPublicKey"}

\* the parser of a request type on a body whose status is not 0x9000:
\* processDataResponseParser.parse returns right after the headers; the
\* parsing functions of the template and the import request throw when
\* data.result is missing; the one of getPubKey returns undefined then, and
\* responseParser.success() throws on the undefined response
parserThrows(kind, outcome) ==
    \/ outcome = "garbage"
    \/ outcome = "noresult" /\ kind # "ProcessData"

\* the failType connector.processAnswer / processFail hands to the fail hook
failTypeOf(kind, outcome) ==
    CASE outcome = "conn" -> PDATA_FAIL_CONNECTION
      [] outcome = "ok" -> 0
      [] parserThrows(kind, outcome) -> PDATA_FAIL_RESPONSE_PARSING
      [] OTHER -> PDATA_FAIL_RESPONSE_FAILED

\* onEbOpFailure of call and of onTemplateFetched_: reject when the limit
\* is reached, else have the retry handler schedule the operation again
onEbOpFailure(a, phase, thunk, p) ==
    IF limitReached(a, maxAttempts)
    THEN [attempts |-> a, timer |-> "none", effect |-> "reject",
          promise |-> settle(p, Rejected([reason |-> "retry attempts limit reached",
                                          phase |-> phase]))]
    ELSE [attempts |-> retry(a), timer |-> thunk, effect |-> "retry", promise |-> p]

\* the state a client object is constructed in: configure() of a createUO
\* client that is not expert adds the keys the caller did not give
ConfiguredKeys ==
    {[k |-> [comenc |-> Random(1), commac |-> Random(2), comnextenc |-> Random(3),
             conextmac |-> Random(4)], rng |-> 4],
     [k |-> [comenc |-> 1, commac |-> 2, comnextenc |-> 3, comnextmac |-> 4,
             conextmac |-> Random(1)], rng |-> 1]}

CallInit ==
    /\ CodecIdle
    /\ ObjIdle
    /\ CliIdle
    /\ FnIdle
    /\ client \in {"processData", "createUO"}
    /\ valid \in BOOLEAN
    /\ maxAttempts \in 1..MaxAttempts
    /\ attempts = 0
    /\ timer = "none"
    /\ request = None
    /\ flight = FALSE
    /\ promise = NoPromise
    /\ \E c \in ConfiguredKeys :
          IF client = "createUO" THEN keys = c.k /\ rng = c.rng
          ELSE keys = NoKeys /\ rng = 0
    /\ tplResponse = None
    /\ fetched = {}
    /\ sent = 0
    /\ last = NoExchange
    /\ failures = [tpl |-> 0, imp |-> 0]
    /\ cancelled = NotCancelled

\* processData.call and createUO.call: a call that lacks its data or its UO
\* type throws in the promise's executor; else the retry handler is reset
\* and the first request is sent
Call ==
    /\ promise.state = "none"
    /\ IF ~valid
       THEN /\ promise' = Rejected([type |-> "invalid"])
            /\ UNCHANGED <<attempts, request, flight, rng, sent>>
       ELSE /\ promise' = Pending
            /\ attempts' = reset(attempts)
            /\ request' = IF client = "processData" THEN pdRequest(rng)
                          ELSE getTplRequest(keys, rng)
            /\ flight' = TRUE
            /\ rng' = rng + 1
            /\ sent' = sent + 1
    /\ UNCHANGED <<client, valid, maxAttempts, timer, keys, tplResponse, fetched, last, failures, cancelled>>
    /\ UNCHANGED <<codecVars, objVars, cliVars, fnVars>>

\* processData.ebOp_: the hooks of the request.  done and ResponseFailed go
\* to onEBSuccess, which fails for a status other than 0x9000; a connection
\* failure goes to onEBFail; any other failType is not handled
PdAnswer(outcome) ==
    /\ client = "processData"
    /\ flight
    /\ flight' = FALSE
    /\ IF outcome = "ok"
       THEN /\ attempts' = reset(attempts)
            /\ promise' = settle(promise, Resolved([data |-> "protectedData"]))
            /\ timer' = timer
            /\ last' = [kind |-> request.kind, outcome |-> outcome, failType |-> 0,
                        effect |-> "resolve", hooks |-> <<"done">>]
       ELSE IF failTypeOf(request.kind, outcome) \in {PDATA_FAIL_RESPONSE_FAILED, PDATA_FAIL_CONNECTION}
       THEN LET f == onEbOpFailure(attempts, 0, "ebOp", promise)
            IN /\ attempts' = f.attempts
               /\ timer' = f.timer
               /\ promise' = f.promise
               /\ last' = [kind |-> request.kind, outcome |-> outcome,
                           failType |-> failTypeOf(request.kind, outcome), effect |-> f.effect,
                           hooks |-> <<"fail">>]
       ELSE /\ UNCHANGED <<attempts, timer, promise>>
            /\ last' = [kind |-> request.kind, outcome |-> outcome,
                        failType |-> failTypeOf(request.kind, outcome), effect |-> "none",
                        hooks |-> <<"fail">>]
    /\ UNCHANGED <<client, valid, maxAttempts, request, keys, rng, tplResponse, fetched, sent, failures, cancelled>>
    /\ UNCHANGED <<codecVars, objVars, cliVars, fnVars>>

\* createUO stage 1: the hooks of tplRequest set by getTpl_.  Every failure
\* goes to onEbOpFailure of call.  A template with status 0x9000 goes to
\* onEbOpSuccess: the handler is reset, onTemplateFetched_ resets it again
\* and starts stage 2 at once; what stage 2 throws there is caught by
\* connector.processAnswer, which then invokes the fail hook of tplRequest
TplAnswer(outcome, t) ==
    /\ client = "createUO"
    /\ flight
    /\ request.kind = "GetUserObjectTemplate"
    /\ IF outcome = "ok"
       THEN LET imp == importUoWithResponse(t, keys, rng)
                f == onEbOpFailure(onTemplateFetchedReset(attempts), 1, "getTpl", promise)
            IN /\ sent < MaxRequests
               /\ fetched' = fetched \cup {t}
               /\ tplResponse' = t
               /\ keys' = imp.keys
               /\ rng' = imp.rng
               /\ IF imp.threw
                  THEN /\ flight' = FALSE
                       /\ request' = request
                       /\ sent' = sent
                       /\ attempts' = f.attempts
                       /\ timer' = f.timer
                       /\ promise' = f.promise
                       /\ last' = [kind |-> request.kind, outcome |-> outcome,
                                   failType |-> PDATA_FAIL_RESPONSE_PARSING,
                                   effect |-> f.effect, hooks |-> <<"done", "fail">>]
                       /\ failures' = [tpl |-> failures.tpl + 1, imp |-> 0]
                  ELSE /\ flight' = TRUE
                       /\ request' = imp.request
                       /\ sent' = sent + 1
                       /\ attempts' = onTemplateFetchedReset(attempts)
                       /\ UNCHANGED <<timer, promise>>
                       /\ last' = [kind |-> request.kind, outcome |-> outcome,
                                   failType |-> 0, effect |-> "stage2", hooks |-> <<"done">>]
                       /\ failures' = [failures EXCEPT !.imp = 0]
       ELSE LET f == onEbOpFailure(attempts, 1, "getTpl", promise)
            IN /\ flight' = FALSE
               /\ attempts' = f.attempts
               /\ timer' = f.timer
               /\ promise' = f.promise
               /\ last' = [kind |-> request.kind, outcome |-> outcome,
                           failType |-> failTypeOf(request.kind, outcome), effect |-> f.effect,
                           hooks |-> <<"fail">>]
               /\ failures' = [failures EXCEPT !.tpl = @ + 1]
               /\ UNCHANGED <<request, keys, rng, tplResponse, fetched, sent>>
    /\ UNCHANGED <<client, valid, maxAttempts, cancelled>>
    /\ UNCHANGED <<codecVars, objVars, cliVars, fnVars>>

\* createUO.onUoImportFinished_: the UO record; this.keys.comenc.key and
\* this.keys.commac.key throw when the key set or the key is undefined
uoImportFinished(handle, k) ==
    IF k = NoKeys \/ "comenc" \notin DOMAIN k \/ "commac" \notin DOMAIN k
    THEN [threw |-> TRUE, uo |-> None]
    ELSE [threw |-> FALSE,
          uo |-> [uoId |-> handle.uoId, uoType |-> handle.uoType,
                  apiKey |-> handle.apiKey,
                  encKey |-> k["comenc"], macKey |-> k["commac"]]]

\* createUO stage 2: the hooks of impRequest set by importUo_.  Every
\* failure goes to onEbOpFailure of onTemplateFetched_.  Status 0x9000 goes
\* to onEbOpSuccess: the handler is reset and onUoImportFinished_ resolves;
\* what it throws is caught by connector.processAnswer, which then invokes
\* the fail hook of impRequest
ImpAnswer(outcome, handle) ==
    /\ client = "createUO"
    /\ flight
    /\ request.kind = "CreateUserObject"
    /\ flight' = FALSE
    /\ IF outcome = "ok"
       THEN LET fin == uoImportFinished(handle, keys)
                f == onEbOpFailure(reset(attempts), 2, "importUo", promise)
            IN IF fin.threw
               THEN /\ attempts' = f.attempts
                    /\ timer' = f.timer
                    /\ promise' = f.promise
                    /\ last' = [kind |-> request.kind, outcome |-> outcome,
                                failType |-> PDATA_FAIL_RESPONSE_PARSING,
                                effect |-> f.effect, hooks |-> <<"done", "fail">>]
                    /\ failures' = [failures EXCEPT !.imp = 1]
               ELSE /\ attempts' = reset(attempts)
                    /\ timer' = timer
                    /\ promise' = settle(promise, Resolved([uo |-> fin.uo]))
                    /\ last' = [kind |-> request.kind, outcome |-> outcome,
                                failType |-> 0, effect |-> "resolve", hooks |-> <<"done">>]
                    /\ failures' = [failures EXCEPT !.imp = 0]
       ELSE LET f == onEbOpFailure(attempts, 2, "importUo", promise)
            IN /\ attempts' = f.attempts
               /\ timer' = f.timer
               /\ promise' = f.promise
               /\ last' = [kind |-> request.kind, outcome |-> outcome,
                           failType |-> failTypeOf(request.kind, outcome), effect |-> f.effect,
                           hooks |-> <<"fail">>]
               /\ failures' = [failures EXCEPT !.imp = @ + 1]
    /\ UNCHANGED <<client, valid, maxAttempts, request, keys, rng, tplResponse, fetched, sent, cancelled>>
    /\ UNCHANGED <<codecVars, objVars, cliVars, fnVars>>

\* the timer of the retry handler runs the thunk it was given: ebOp_ sends
\* the request object of the call again, getTpl_ a new template request,
\* importUoWithResponse_ a new import request for the template of stage 2
TimerFires ==
    /\ timer # "none"
    /\ sent < MaxRequests
    /\ timer' = "none"
    /\ CASE timer = "ebOp" ->
              /\ flight' = TRUE
              /\ sent' = sent + 1
              /\ request' = ebOpRequest(request, rng)
              /\ UNCHANGED <<keys, rng>>
         [] timer = "getTpl" ->
              /\ request' = getTplRequest(keys, rng)
              /\ rng' = rng + 1
              /\ flight' = TRUE
              /\ sent' = sent + 1
              /\ keys' = keys
         [] timer = "importUo" ->
              LET imp == importUoWithResponse(tplResponse, keys, rng)
              IN /\ keys' = imp.keys
                 /\ rng' = imp.rng
                 /\ flight' = ~imp.threw
                 /\ request' = IF imp.threw THEN request ELSE imp.request
                 /\ sent' = IF imp.threw THEN sent ELSE sent + 1
    /\ UNCHANGED <<client, valid, maxAttempts, attempts, promise, tplResponse, fetched, last, failures, cancelled>>
    /\ UNCHANGED <<codecVars, objVars, cliVars, fnVars>>

\* a cancel that leaves the timer of the retry handler pending
cancelNothing(t) == t

\* processData.cancel and createUO.cancel: retryHandler.cancel(), which
\* aborts the pending timer, and nothing else
cancel(t) == "none"

Cancel ==
    /\ promise.state = "pending"
    /\ cancelled.when = "no"
    /\ timer' = cancel(timer)
    /\ cancelled' = [when |-> IF timer # "none" THEN "timer"
                              ELSE IF flight THEN "flight" ELSE "idle",
                     sent |-> sent]
    /\ UNCHANGED <<client, valid, maxAttempts, attempts, request, flight, promise, keys,
                   rng, tplResponse, fetched, sent, last, failures>>
    /\ UNCHANGED <<codecVars, objVars, cliVars, fnVars>>

CallNext ==
    \/ Call
    \/ \E outcome \in Outcomes : PdAnswer(outcome)
    \/ \E outcome \in Outcomes, t \in Templates : TplAnswer(outcome, t)
    \/ \E outcome \in Outcomes, handle \in Handles : ImpAnswer(outcome, handle)
    \/ TimerFires
    \/ Cancel

SpecCall == CallInit /\ [][CallNext]_vars

(***************************************************************************)
(* Request objects built one after another.  Each build is made by a fresh  *)
(* request object; the defaults object is the one of the prototype.         *)
(***************************************************************************)
\* the body getUOTemplateRequest.build makes from a data object
tplBody(data, given) == [mergeInto(data, given) EXCEPT !.type = inputToHex(@)]

\* getUOTemplateRequest.build(request): reqBody.data is this.defaults
\* itself, the request is merged into it and its type is rewritten in hex
BuildTemplateRequest ==
    /\ \E given \in
          {<<>>} \cup [{"environment"} -> {Str("prod"), Str("test")}]
              \cup [{"maxtps"} -> {Str("ten")}]
              \cup [{"environment", "maxtps"} -> {Str("prod")}] :
          /\ defaults' = [defaults EXCEPT !.tpl = tplBody(@, given)]
          /\ built' = [kind |-> "GetUserObjectTemplate", given |-> given,
                       data |-> tplBody(defaults.tpl, given)]
    /\ UNCHANGED <<codecVars, callVars, cliVars, fnVars>>

\* importUORequest.build(request): reqBody.data is this.defaults itself
BuildImportRequest ==
    /\ \E given \in
          {[objectid |-> Str("1"), object |-> Str("ab"), authorization |-> a] :
              a \in {Undefined, Str("auth1"), Str("auth2")}} :
          /\ defaults' = [defaults EXCEPT !.imp = mergeInto(@, given)]
          /\ built' = [kind |-> "CreateUserObject", given |-> given,
                       data |-> mergeInto(defaults.imp, given)]
    /\ UNCHANGED <<codecVars, callVars, cliVars, fnVars>>

\* eb.comm.hotp.userIdToHex on a hex string: zeros in front up to 16 digits
userIdToHex(x) ==
    Str([i \in 1..16 |-> IF i <= 16 - Len(x.s) THEN 0 ELSE x.s[i - (16 - Len(x.s))]])

\* eb.comm.hotp.getCtxTemplate: the user id and the HOTP digits that go
\* into the context; an option that is not given takes the default
getCtxTemplate(options) ==
    LET o == mergeInto([userId |-> userIdToHex(Str(<<0, 1>>)), digits |-> NumVal(6)],
                       options)
    IN [userId |-> userIdToHex(o.userId), digits |-> o.digits]

\* updateAuthContextRequestBuilder.build: throws without user id, context
\* or method; else the update record
updateCtx(d) ==
    IF Undefined \in {d.userId, d.userCtx, d.targetMethod}
    THEN [threw |-> TRUE, userId |-> Undefined, targetMethod |-> Undefined]
    ELSE [threw |-> FALSE, userId |-> userIdToHex(d.userId), targetMethod |-> d.targetMethod]

\* newHotpUserRequest.build(configObject): configureHotp merges the hotp
\* options into this.authConfig, the object of the prototype; the builder
\* made from it merges authConfig into its defaults, the object of its
\* prototype, and builds the context from them
BuildNewHotpUser ==
    /\ \E given \in
          {<<>>} \cup [{"userId"} -> {Str(<<2>>), Str(<<10, 11>>)}]
              \cup [{"digits"} -> {NumVal(8)}] :
          LET authConfig == mergeInto(defaults.auth, given)
              builderDefaults == mergeInto(defaults.hotp, authConfig)
          IN /\ defaults' = [defaults EXCEPT !.auth = authConfig, !.hotp = builderDefaults]
             /\ built' = [kind |-> "NewHotpUser", given |-> given,
                          data |-> getCtxTemplate(builderDefaults)]
    /\ UNCHANGED <<codecVars, callVars, cliVars, fnVars>>

\* new updateAuthContextRequestBuilder(options).build(): configure merges
\* the options into this.defaults, the object of the prototype
BuildUpdateAuthContext ==
    /\ \E given \in
          {[userCtx |-> Str(<<1>>), targetMethod |-> NumVal(1)]}
              \cup {[userCtx |-> Str(<<1>>), targetMethod |-> NumVal(1), userId |-> u] :
                        u \in {Str(<<1>>), Str(<<3>>)}} :
          /\ defaults' = [defaults EXCEPT !.upd = mergeInto(@, given)]
          /\ built' = [kind |-> "UpdateAuthContext", given |-> given,
                       data |-> updateCtx(mergeInto(defaults.upd, given))]
    /\ UNCHANGED <<codecVars, callVars, cliVars, fnVars>>

(***************************************************************************)
(* The client objects: configure, build and call of eb.client.processData, *)
(* configure and getTpl_ of eb.client.createUO.                            *)
(***************************************************************************)
\* the target of the merge that aliases the default template
extendTargetSource(ref) == "createTpl"

\* this.uoRequest || {}: the target ebextend merges the default template of
\* the Configuration into is the client's own object
extendTarget(ref) == "own"

\* prepareConfigRequest: a copy of the client's options that takes the UO's
\* id and keys and the Configuration's endpoint and api key where unset
prepareConfigRequest(srcCfg, config, endpoint) ==
    srcCfg @@ (IF "uo" \in DOMAIN srcCfg THEN srcCfg.uo ELSE <<>>)
           @@ [endpoint |-> config[endpoint], apiKey |-> config.apiKey]

\* configure of a request object: the aliases and the parsed endpoint are
\* written into the configuration object it was given
requestConfigure(toConfig) ==
    (IF "encKey" \in DOMAIN toConfig THEN [aesKey |-> toConfig.encKey] ELSE <<>>)
        @@ [remoteEndpoint |-> toConfig.endpoint.hostname,
            remotePort |-> toConfig.endpoint.port,
            requestScheme |-> toConfig.endpoint.scheme]
        @@ toConfig

\* the body eb.comm.processData.build makes for user data
processDataBody(cfg, data) ==
    [uoId |-> cfg.uoId, aesKey |-> cfg.aesKey, apiKey |-> cfg.apiKey, data |-> data]

\* processData.configure: the options are kept, a new request object is
\* made and configured, this.data is the input; wasBuilt is left as it is
pdConfigure(options, config, wasBuilt) ==
    [config |-> options, data |-> options.input, wasBuilt |-> wasBuilt,
     cfg |-> requestConfigure(prepareConfigRequest(options, config, "endpointProcess")),
     reqBody |-> Undefined]

\* createUO.getUoType: bit 20 tells of client communication keys, bit 21 of
\* a client application key
getUoType(uoType, comm, app) ==
    LET set(n, b, on) == n - Bit(n, b) * 2^b + (IF on THEN 2^b ELSE 0)
    IN set(set(uoType, 20, comm), 21, app)

\* a write to this.uoRequest, through the reference the client holds
uoRequestWrite(config, ref, val) ==
    [configuration |-> IF ref = "createTpl" THEN [config EXCEPT !.createTpl = val]
                       ELSE config,
     uoRequest |-> [ref |-> ref, val |-> IF ref = "createTpl" THEN <<>> ELSE val]]

\* the object this.uoRequest refers to
uoRequestOf(c, config) ==
    IF c.uoRequest.ref = "createTpl" THEN config.createTpl ELSE c.uoRequest.val

\* createUO.hasAppKey_
hasAppKey(k) == k # NoKeys /\ "app" \in DOMAIN k

\* createUO.configure: this.keys are the keys of the options; a client that
\* is not expert gets the communication keys the caller did not give
cuKeys(options) ==
    IF options.expert THEN options.keys
    ELSE ebextend([comenc |-> Random(1), commac |-> Random(2), comnextenc |-> Random(3),
                   conextmac |-> Random(4)], options.keys)

\* the UO type the caller configured: objType, else the type of the
\* template of the options, else the type of the default template
callerType(options, config) ==
    IF options.objType # Undefined THEN options.objType
    ELSE mergeInto(config.createTpl, options.tpl).type

\* createUO.configure: the default template of the Configuration, then the
\* template of the options are merged into this.uoRequest; setUoType_
\* writes the type; a client that is not expert has communication keys
cuConfigure(c, options, config) ==
    LET ref == extendTarget(c.uoRequest.ref)
        base == IF ref = "createTpl" THEN config.createTpl ELSE c.uoRequest.val
        merged == mergeInto(mergeInto(base, config.createTpl), options.tpl)
        k == cuKeys(options)
        typed == IF options.objType = Undefined THEN merged
                 ELSE mergeInto(merged,
                         [type |-> NumVal(getUoType(options.objType.n, hasCommKey(k),
                                                    hasAppKey(k)))])
    IN uoRequestWrite(config, ref, typed)

ClientOptions ==
    [input : {Undefined, Str("d1"), Str("d2")},
     uo : {[uoId |-> Str("e1"), encKey |-> Str("k1")],
           [uoId |-> Str("e2"), encKey |-> Str("k2")]}]

CreateOptions ==
    [tpl : {<<>>, [environment |-> Str("test")], [type |-> NumVal(1048582)]},
     objType : {Undefined, NumVal(15)},
     expert : BOOLEAN,
     keys : {<<>>, [app |-> 9]}]

\* the Configuration is constructed by the caller and both clients are
\* constructed with it; the constructors call configure
CliInit ==
    /\ CodecIdle
    /\ CallIdle
    /\ ObjIdle
    /\ FnIdle
    /\ constructed \in
          [endpointProcess : {[scheme |-> "https", hostname |-> "site2", port |-> 11180]},
           endpointEnroll : {[scheme |-> "https", hostname |-> "site2", port |-> 11182]},
           apiKey : {Str("API_TEST"), Str("KEY2")},
           createTpl : {[type |-> NumVal(4)],
                        [type |-> NumVal(4), environment |-> Str("prod")]}]
    /\ \E options \in ClientOptions, create \in CreateOptions :
          LET made == [uoRequest |-> [ref |-> "own", val |-> <<>>], cfg |-> Undefined,
                       keys |-> cuKeys(create), objType |-> callerType(create, constructed),
                       tplRequest |-> [sent |-> 0, type |-> Undefined]]
              r == cuConfigure(made, create, constructed)
          IN /\ pd = pdConfigure(options, constructed, FALSE)
             /\ cu = [made EXCEPT !.uoRequest = r.uoRequest]
             /\ configuration = r.configuration
    /\ out = [kind |-> "none", body |-> Undefined]

PdConfigure ==
    /\ \E options \in ClientOptions :
          pd' = pdConfigure(options, configuration, pd.wasBuilt)
    /\ out' = [kind |-> "none", body |-> Undefined]
    /\ UNCHANGED <<configuration, constructed, cu>>
    /\ UNCHANGED <<codecVars, callVars, objVars, fnVars>>

\* processData.build(): throws without data; else the request is built
PdBuild ==
    /\ pd.data # Undefined
    /\ pd' = [pd EXCEPT !.reqBody = processDataBody(pd.cfg, pd.data), !.wasBuilt = TRUE]
    /\ UNCHANGED <<configuration, constructed, cu, out>>
    /\ UNCHANGED <<codecVars, callVars, objVars, fnVars>>

\* processData.call(): build() unless wasBuilt; then ebOp_ has the request
\* object do the request, and eb.comm.processData.doRequest builds a
\* request object that has no body, with no plain data and no user data:
\* sjcl.bitArray.bitLength(undefined) throws, or the body has no user data
PdCall ==
    /\ out.kind = "none"
    /\ IF ~pd.wasBuilt
       THEN IF pd.data = Undefined
            THEN /\ out' = [kind |-> "rejected", body |-> Undefined]
                 /\ pd' = pd
            ELSE /\ out' = [kind |-> "sent", body |-> processDataBody(pd.cfg, pd.data)]
                 /\ pd' = [pd EXCEPT !.reqBody = processDataBody(pd.cfg, pd.data),
                                     !.wasBuilt = TRUE]
       ELSE IF pd.reqBody = Undefined
            THEN \/ /\ out' = [kind |-> "rejected", body |-> Undefined]
                    /\ pd' = pd
                 \/ /\ out' = [kind |-> "sent", body |-> processDataBody(pd.cfg, Undefined)]
                    /\ pd' = [pd EXCEPT !.reqBody = processDataBody(pd.cfg, Undefined)]
            ELSE /\ out' = [kind |-> "sent", body |-> pd.reqBody]
                 /\ pd' = pd
    /\ UNCHANGED <<configuration, constructed, cu>>
    /\ UNCHANGED <<codecVars, callVars, objVars, fnVars>>

CuConfigure ==
    /\ \E options \in CreateOptions :
          LET r == cuConfigure(cu, options, configuration)
          IN /\ cu' = [cu EXCEPT !.uoRequest = r.uoRequest, !.keys = cuKeys(options),
                                 !.objType = callerType(options, configuration),
                                 !.tplRequest = [sent |-> 0, type |-> Undefined]]
             /\ configuration' = r.configuration
    /\ UNCHANGED <<constructed, pd, out>>
    /\ UNCHANGED <<codecVars, callVars, objVars, fnVars>>

\* createUO.getTpl_, one attempt of a call: the template request is
\* configured with a copy of the client's configuration; the request data
\* are a copy of this.uoRequest; setUoType_ writes the type with its key
\* flags into this.uoRequest; the request is built from the request data
CuGetTpl ==
    /\ cu.tplRequest.sent < MaxAttempts
    /\ LET requestData == uoRequestOf(cu, configuration)
           r == uoRequestWrite(configuration, cu.uoRequest.ref,
                    mergeInto(requestData,
                        [type |-> NumVal(getUoType(requestData.type.n, hasCommKey(cu.keys),
                                                   hasAppKey(cu.keys)))]))
       IN /\ cu' = [cu EXCEPT
                       !.uoRequest = r.uoRequest,
                       !.cfg = requestConfigure(prepareConfigRequest(
                                   [uoId |-> NumVal(0)], configuration, "endpointEnroll")),
                       !.tplRequest = [sent |-> @.sent + 1,
                                       type |-> tplBody(TplDefaults, requestData).type]]
          /\ configuration' = r.configuration
    /\ UNCHANGED <<constructed, pd, out>>
    /\ UNCHANGED <<codecVars, callVars, objVars, fnVars>>

CliNext ==
    \/ PdConfigure
    \/ PdBuild
    \/ PdCall
    \/ CuConfigure
    \/ CuGetTpl

SpecClient == CliInit /\ [][CliNext]_vars

ObjInit ==
    /\ CodecIdle
    /\ CallIdle
    /\ ObjIdle
    /\ CliIdle
    /\ FnIdle

ObjNext ==
    \/ BuildTemplateRequest
    \/ BuildImportRequest
    \/ BuildNewHotpUser
    \/ BuildUpdateAuthContext

SpecObjects == ObjInit /\ [][ObjNext]_vars

(***************************************************************************)
(* User object handles: eb.comm.getUoHandle and eb.comm.parseHandle.       *)
(* A string is a sequence of one-character strings.                        *)
(***************************************************************************)
MaxApiKey == 3

HexChars == <<"0", "1", "2", "3", "4", "5", "6", "7", "8", "9",
              "a", "b", "c", "d", "e", "f">>

\* [0-9a-fA-F] of the handle expression
isHexChar(c) == c \in {HexChars[i] : i \in 1..16} \cup {"A", "B", "C", "D", "E", "F"}

\* [a-zA-Z0-9_-] of the handle expression, over the characters of the model
isKeyChar(c) == isHexChar(c) \/ c \in {"k", "K", "z", "_", "-"}

\* sprintf("%04x", n) for n < 65536
sprintf04x(n) ==
    <<HexChars[(n \div 4096) + 1], HexChars[((n \div 256) % 16) + 1],
      HexChars[((n \div 16) % 16) + 1], HexChars[(n % 16) + 1]>>

\* sprintf("%08x", n) for a number below 2^32
sprintf08x(n) == sprintf04x(n.hi) \o sprintf04x(n.lo)

getUoHandle(apiKey, uoId, uoType) ==
    IF uoId = Undefined THEN apiKey
    ELSE apiKey \o <<"0", "0">> \o sprintf08x(uoId) \o <<"0", "0">>
            \o sprintf08x(IF uoType = Undefined THEN Num(0, 0) ELSE uoType)

\* "00" and eight hex characters at position p of h
idPart(h, p) ==
    /\ p + 9 <= Len(h)
    /\ h[p] = "0" /\ h[p + 1] = "0"
    /\ \A i \in (p + 2)..(p + 9) : isHexChar(h[i])

\* the handle expression matches h with its first group taking n characters
handleRe(h, n) ==
    /\ n >= 1
    /\ \A i \in 1..n : i <= Len(h) /\ isKeyChar(h[i])
    /\ idPart(h, n + 1)
    /\ \/ Len(h) = n + 10
       \/ Len(h) = n + 20 /\ idPart(h, n + 11)

\* a greedy quantifier takes the longest first group that matches
greedy(lengths) == CHOOSE n \in lengths : \A l \in lengths : l <= n

\* +? takes the shortest first group that matches
lazy(lengths) == CHOOSE n \in lengths : \A l \in lengths : n <= l

parseHandle(h) ==
    LET lengths == {n \in 1..Len(h) : handleRe(h, n)}
        n == lazy(lengths)
    IN IF lengths = {}
       THEN [thrown |-> "Invalid handle", apiKey |-> <<>>, uoId |-> Undefined,
             uoType |-> Undefined]
       ELSE [thrown |-> "", apiKey |-> SubSeq(h, 1, n),
             uoId |-> Str(SubSeq(h, n + 3, n + 10)),
             uoType |-> IF Len(h) = n + 20 THEN Str(SubSeq(h, n + 13, n + 20))
                        ELSE Undefined]

RECURSIVE StringsUpTo(_, _)
StringsUpTo(chars, n) ==
    IF n = 0 THEN {<<>>}
    ELSE LET shorter == StringsUpTo(chars, n - 1)
         IN shorter \cup {<<c>> \o t : c \in chars, t \in {u \in shorter : Len(u) = n - 1}}

\* api keys: the short ones over four characters, and keys that hold "00"
\* and eight hex characters themselves
ApiKeys ==
    (StringsUpTo({"0", "a", "k", "_"}, MaxApiKey) \ {<<>>})
        \cup {<<"k", "0", "0", "0", "0", "0", "0", "0", "0", "1", "3">>,
              <<"0", "0", "0", "0", "0", "0", "0", "0", "1", "3", "0", "0">>,
              <<"K", "0", "0">>}

HandleIds == {Num(0, 0), Num(0, 19), Num(160, 4), Num(32768, 1), Num(65535, 65535)}

HandleInit ==
    /\ subject \in [apiKey : ApiKeys, uoId : HandleIds \cup {Undefined},
                    uoType : HandleIds \cup {Undefined}]
    /\ returned = [handle |-> None, parsed |-> None]
    /\ CodecIdle
    /\ CallIdle
    /\ ObjIdle
    /\ CliIdle

GetUoHandle ==
    /\ returned.handle = None
    /\ returned' = [returned EXCEPT
                       !.handle = Str(getUoHandle(subject.apiKey, subject.uoId, subject.uoType))]
    /\ UNCHANGED <<subject, codecVars, callVars, objVars, cliVars>>

ParseHandle ==
    /\ returned.handle # None
    /\ returned.parsed = None
    /\ returned' = [returned EXCEPT !.parsed = parseHandle(returned.handle.s)]
    /\ UNCHANGED <<subject, codecVars, callVars, objVars, cliVars>>

HandleNext ==
    \/ GetUoHandle
    \/ ParseHandle

SpecHandle == HandleInit /\ [][HandleNext]_vars

(***************************************************************************)
(* Nonces of any byte length: the service adds 0x01010101 to each 32-bit   *)
(* word of the nonce, and to a final partial word the high bits of the     *)
(* constant; eb.comm.demangleNonce is applied to what the service returns. *)
(***************************************************************************)
MaxNonceLen == 16

RECURSIVE mangleNonce(_)
mangleNonce(nonce) ==
    IF Len(nonce) >= 4
    THEN WordToBytes(mangleWord(BytesToWord(SubSeq(nonce, 1, 4))))
            \o mangleNonce(SubSeq(nonce, 5, Len(nonce)))
    ELSE LET t == Len(nonce)
             top == BytesToWord(nonce \o [i \in 1..(4 - t) |-> 0])
             add == BytesToWord([i \in 1..4 |-> IF i <= t THEN WordToBytes(MangleNum)[i] ELSE 0])
         IN SubSeq(WordToBytes(addWord(top, add)), 1, t)

\* the nonce of k bytes that starts with byte f and goes on in steps of s
NoncePattern(f, s, k) == [i \in 1..k |-> (f + (i - 1) * s) % 256]

NonceInit ==
    /\ subject \in {[nonce |-> NoncePattern(f, s, k)] :
                        f \in {0, 127, 254, 255}, s \in {0, 1, 85}, k \in 1..MaxNonceLen}
    /\ returned = [mangled |-> None, demangled |-> None]
    /\ CodecIdle
    /\ CallIdle
    /\ ObjIdle
    /\ CliIdle

MangleNonce ==
    /\ returned.mangled = None
    /\ returned' = [returned EXCEPT !.mangled = [bits |-> mangleNonce(subject.nonce)]]
    /\ UNCHANGED <<subject, codecVars, callVars, objVars, cliVars>>

DemangleNonce ==
    /\ returned.mangled # None
    /\ returned.demangled = None
    /\ returned' = [returned EXCEPT !.demangled = [bits |-> demangleNonce(returned.mangled.bits)]]
    /\ UNCHANGED <<subject, codecVars, callVars, objVars, cliVars>>

NonceNext ==
    \/ MangleNonce
    \/ DemangleNonce

SpecNonce == NonceInit /\ [][NonceNext]_vars

(***************************************************************************)
(* The request body builder applied to plain data of up to MaxPlainLen     *)
(* bytes.  Long plain data is a run of equal bytes, kept as its length and *)
(* the byte; its hex form is a run of equal digit pairs.                   *)
(***************************************************************************)
MaxPlainLen == 65536

PlainLens == {0, 1, 2, 255, 256, 4095, 4096, MaxPlainLen - 1, MaxPlainLen}

BodyInit ==
    /\ subject \in [aesKey : Keys, macKey : Keys, userObjectId : UOids, nonce : Nonces,
                    requestData : UserDatas,
                    plainData : [bytes : PlainLens, each : {90}],
                    reqType : {"PLAINAES"}]
    /\ returned = [requestBase |-> None]
    /\ CodecIdle
    /\ CallIdle
    /\ ObjIdle
    /\ CliIdle

BuildBody ==
    /\ returned.requestBase = None
    /\ returned' =
          [requestBase |->
              requestBaseArgs(subject, subject.plainData.bytes,
                              [pairs |-> subject.plainData.bytes,
                               each |-> hexFromBits(<<subject.plainData.each>>)])]
    /\ UNCHANGED <<subject, codecVars, callVars, objVars, cliVars>>

SpecBody == BodyInit /\ [][BuildBody]_vars

(***************************************************************************)
(* HOTP responses: eb.comm.hotp.generalHotpParser.parse applied to the     *)
(* protected data of a response, and authHotpUserRequest.subDone.  The     *)
(* HOTP response object lives on between parses when the caller passes it  *)
(* in again.                                                               *)
(***************************************************************************)
MaxCtxLen == 2

TLV_TYPE_USERAUTHCONTEXT == 163     \* 0xa3
TLV_TYPE_HOTPCODE == 165            \* 0xa5
TLV_TYPE_PASSWORDHASH == 164        \* 0xa4
USERAUTHCTX_MAIN_USERID_LENGTH == 8
USERAUTH_FLAG_HOTP == 1
USER_AUTH_TYPE_HOTP == 63
USERAUTH_FLAG_PASSWD == 2
USER_AUTH_TYPE_PASSWD == 64
USERAUTH_FLAG_GLOBALTRIES == 4
USER_AUTH_TYPE_GLOBALTRIES == 62
SW_INVALID_TLV_FORMAT == 32844      \* 0x8000 | 0x04c
SW_AUTHMETHOD_UNKNOWN == 41146      \* 0xa000 | 0x0ba
SW_AUTH_MISMATCH_USER_ID == 41142   \* 0xa000 | 0x0b6
SW_HOTP_WRONG_CODE == 41136         \* 0xa000 | 0x0b0

\* a new eb.comm.hotp.hotpResponse
NewHotpResponse ==
    [hotpUserCtx |-> Unset, hotpUserId |-> Unset, hotpKey |-> Unset,
     hotpStatus |-> Undefined, hotpParsingSuccessful |-> FALSE,
     hotpShouldUpdateCtx |-> FALSE]

\* sjcl.bitArray.extract(data, 8 * at, 8) and (data, 8 * at, 16): bits past
\* the end of the data read as zero
extract8(data, at) == IF at < Len(data) THEN data[at + 1] ELSE 0

extract16(data, at) == extract8(data, at) * 256 + extract8(data, at + 1)

\* (methods & flag) > 0
hasMethod(methods, flag) == (methods \div flag) % 2 = 1

\* one of the three method records of the parser: st is the response, the
\* error thrown so far and the offset in bytes
parseMethod(data, st, methods, flag, type, keepsKey, bIsLocalCtxUpdate) ==
    IF st.thrown # "" \/ ~hasMethod(methods, flag) THEN st
    ELSE LET methodTag == extract8(data, st.offset)
             dataReturnLen == extract16(data, st.offset + 1)
             at == st.offset + 3
         IN IF methodTag # type
            THEN [st EXCEPT !.response.hotpStatus = NumVal(SW_AUTHMETHOD_UNKNOWN),
                            !.thrown = "Invalid method tag", !.offset = st.offset + 1]
            ELSE IF keepsKey /\ bIsLocalCtxUpdate
            THEN [st EXCEPT !.response.hotpKey = Val(byteSlice(data, at, at + dataReturnLen)),
                            !.offset = at + dataReturnLen]
            ELSE IF dataReturnLen # 0
            THEN [st EXCEPT !.thrown = "Should not contain data", !.offset = at]
            ELSE [st EXCEPT !.offset = at]

\* a parser that takes any length for the expected one
dataLengthAny(offset, data) == TRUE

\* (offset + 16) == ba.bitLength(data), the offset in bytes
dataLengthValid(offset, data) == offset + 2 = Len(data)

generalHotpParse(data, response, options) ==
    IF options.tlvOp = Undefined
    THEN [response |-> response, thrown |-> "Main TLV operation undefined", offset |-> 0]
    ELSE
    LET entered == [response EXCEPT !.hotpStatus = NumVal(0),
                                !.hotpParsingSuccessful = FALSE,
                                !.hotpShouldUpdateCtx = FALSE]
        userCtxLen == extract16(data, 1)
        withCtx == [entered EXCEPT !.hotpUserCtx = Val(byteSlice(data, 3, 3 + userCtxLen))]
        opAt == 3 + userCtxLen
        idAt == opAt + 3
        requestUserId == byteSlice(data, idAt, idAt + USERAUTHCTX_MAIN_USERID_LENGTH)
        methodsAt == idAt + USERAUTHCTX_MAIN_USERID_LENGTH
        m1 == parseMethod(data,
                  [response |-> [withCtx EXCEPT !.hotpUserId = Val(requestUserId)],
                   thrown |-> "", offset |-> methodsAt],
                  options.methods, USERAUTH_FLAG_HOTP, USER_AUTH_TYPE_HOTP, TRUE,
                  options.bIsLocalCtxUpdate)
        m2 == parseMethod(data, m1, options.methods, USERAUTH_FLAG_PASSWD,
                          USER_AUTH_TYPE_PASSWD, FALSE, options.bIsLocalCtxUpdate)
        m3 == parseMethod(data, m2, options.methods, USERAUTH_FLAG_GLOBALTRIES,
                          USER_AUTH_TYPE_GLOBALTRIES, FALSE, options.bIsLocalCtxUpdate)
    IN IF extract8(data, 0) # TLV_TYPE_USERAUTHCONTEXT
       THEN [response |-> [entered EXCEPT !.hotpStatus = NumVal(SW_INVALID_TLV_FORMAT)],
             thrown |-> "Unrecognized TLV tag", offset |-> 1]
       ELSE IF extract8(data, opAt) # options.tlvOp.n
       THEN [response |-> [withCtx EXCEPT !.hotpStatus = NumVal(SW_INVALID_TLV_FORMAT)],
             thrown |-> "Main TLV tag does not match", offset |-> opAt + 1]
       ELSE IF options.userId # Undefined /\ options.userId.s # requestUserId
       THEN [response |-> [withCtx EXCEPT !.hotpStatus = NumVal(SW_AUTH_MISMATCH_USER_ID)],
             thrown |-> "User ID mismatch", offset |-> methodsAt]
       ELSE IF m3.thrown # "" THEN m3
       ELSE IF ~dataLengthValid(m3.offset, data)
       THEN [m3 EXCEPT !.thrown = "Data length invalid"]
       ELSE [response |-> [m3.response EXCEPT
                               !.hotpStatus = NumVal(extract16(data, m3.offset)),
                               !.hotpShouldUpdateCtx = TRUE,
                               !.hotpParsingSuccessful = TRUE],
             thrown |-> "", offset |-> m3.offset + 2]

\* hotpUserAuthResponseParser.parse
hotpUserAuthParse(data, response, options) ==
    generalHotpParse(data, response,
        [options EXCEPT !.bIsLocalCtxUpdate = FALSE,
                        !.tlvOp = IF @ = Undefined THEN NumVal(TLV_TYPE_HOTPCODE) ELSE @,
                        !.methods = IF @ = 0 THEN USERAUTH_FLAG_HOTP ELSE @])

\* response.hotpStatus == eb.comm.status.SW_STAT_OK
hotpStatusAny(hotpStatus) == TRUE

hotpStatusOk(hotpStatus) == hotpStatus = NumVal(SW_STAT_OK)

\* what the HSM answers to an authentication: the user context it has
\* updated, the operation, the user id, one method record and its status;
\* the protected data that arrives may be damaged
HsmAnswers ==
    [userCtx : {[i \in 1..n |-> 6 + i] : n \in 1..MaxCtxLen},
     op : {[tlv |-> TLV_TYPE_HOTPCODE, type |-> USER_AUTH_TYPE_HOTP],
           [tlv |-> TLV_TYPE_PASSWORDHASH, type |-> USER_AUTH_TYPE_PASSWD]},
     userId : {[i \in 1..USERAUTHCTX_MAIN_USERID_LENGTH |-> i]},
     status : {SW_STAT_OK, SW_HOTP_WRONG_CODE},
     damage : {"none"}]
    \cup
    [userCtx : {<<7>>},
     op : {[tlv |-> TLV_TYPE_HOTPCODE, type |-> USER_AUTH_TYPE_HOTP]},
     userId : {[i \in 1..USERAUTHCTX_MAIN_USERID_LENGTH |-> i]},
     status : {SW_STAT_OK},
     damage : {"tag", "method", "data", "cut", "user"}]

hsmData(h) ==
    LET tag == IF h.damage = "tag" THEN 0 ELSE TLV_TYPE_USERAUTHCONTEXT
        type == IF h.damage = "method" THEN USER_AUTH_TYPE_GLOBALTRIES ELSE h.op.type
        held == IF h.damage = "data" THEN <<0, 1, 5>> ELSE <<0, 0>>
        userId == IF h.damage = "user" THEN [i \in 1..Len(h.userId) |-> 0] ELSE h.userId
        whole == <<tag, 0, Len(h.userCtx)>> \o h.userCtx
                    \o <<h.op.tlv, 0, USERAUTHCTX_MAIN_USERID_LENGTH + 5>> \o userId
                    \o <<type>> \o held \o <<h.status \div 256, h.status % 256>>
    IN IF h.damage = "cut" THEN SubSeq(whole, 1, Len(whole) - 1)
       ELSE IF h.damage = "trail" THEN whole \o <<0>>
       ELSE whole

ParseOptions ==
    {[tlvOp |-> t, methods |-> m.methods, bIsLocalCtxUpdate |-> m.bIsLocalCtxUpdate,
      userId |-> u] :
        t \in {Undefined, NumVal(TLV_TYPE_HOTPCODE), NumVal(TLV_TYPE_PASSWORDHASH)},
        m \in {[methods |-> USERAUTH_FLAG_HOTP, bIsLocalCtxUpdate |-> TRUE],
               [methods |-> USERAUTH_FLAG_HOTP, bIsLocalCtxUpdate |-> FALSE],
               [methods |-> USERAUTH_FLAG_PASSWD, bIsLocalCtxUpdate |-> FALSE]},
        u \in {Undefined, Str([i \in 1..USERAUTHCTX_MAIN_USERID_LENGTH |-> i])}}

HotpInit ==
    /\ subject \in [userId : {Undefined, Str([i \in 1..USERAUTHCTX_MAIN_USERID_LENGTH |-> i])},
                    auth : {[authMethod |-> TLV_TYPE_HOTPCODE, authFlag |-> USERAUTH_FLAG_HOTP],
                            [authMethod |-> TLV_TYPE_PASSWORDHASH,
                             authFlag |-> USERAUTH_FLAG_PASSWD]}]
    /\ returned = [response |-> NewHotpResponse, reused |-> FALSE, thrown |-> "",
                   hsm |-> None, hook |-> [fired |-> "none"]]
    /\ CodecIdle
    /\ CallIdle
    /\ ObjIdle
    /\ CliIdle

\* parse(data, resp, options) with the response object that is there: a new
\* one, or the one of the last parse or subDone
GeneralHotpParse ==
    /\ \E h \in HsmAnswers, options \in ParseOptions :
          LET r == generalHotpParse(hsmData(h), returned.response, options)
          IN returned' = [response |-> r.response,
                          reused |-> returned.response.hotpParsingSuccessful, thrown |-> r.thrown,
                          hsm |-> [userCtx |-> h.userCtx, status |-> h.status, damage |-> h.damage],
                          hook |-> [fired |-> "none"]]
    /\ UNCHANGED <<subject, codecVars, callVars, objVars, cliVars>>

\* authHotpUserRequest.subDone on the response object processAnswer made
\* for this answer
AuthSubDone ==
    /\ \E h \in HsmAnswers :
          LET options == [userId |-> subject.userId, tlvOp |-> NumVal(subject.auth.authMethod),
                          methods |-> subject.auth.authFlag, bIsLocalCtxUpdate |-> TRUE]
              r == hotpUserAuthParse(hsmData(h), NewHotpResponse, options)
          IN returned' =
                [response |-> r.response, reused |-> FALSE, thrown |-> r.thrown,
                 hsm |-> [userCtx |-> h.userCtx, status |-> h.status, damage |-> h.damage],
                 hook |-> IF r.thrown = "" /\ hotpStatusOk(r.response.hotpStatus)
                          THEN [fired |-> "done", response |-> r.response]
                          ELSE [fired |-> "fail", failType |-> PDATA_FAIL_RESPONSE_FAILED,
                                response |-> r.response]]
    /\ UNCHANGED <<subject, codecVars, callVars, objVars, cliVars>>

HotpNext ==
    \/ GeneralHotpParse
    \/ AuthSubDone

SpecHotp == HotpInit /\ [][HotpNext]_vars

(***************************************************************************)
(* eb.padding.pkcs7 on byte-aligned data, as the library defines it in      *)
(* lib/eb-core.js and as public/enigma.js defines it for the browser.       *)
(***************************************************************************)
MaxPadLen == 33

\* public/enigma.js, eb.padding.pkcs7.pad: the input is returned as it is
\* when padLen is 16
pkcs7padBrowser(a) ==
    LET padLen == BS - (Len(a) % BS)
    IN IF padLen = 16 THEN a ELSE a \o [i \in 1..padLen |-> padLen]

\* eb.padding.pkcs7.pad of a version
pkcs7padOf(version, a) == IF version = "browser" THEN pkcs7padBrowser(a) ELSE pkcs7pad(a)

\* eb.padding.pkcs7.unpad, the same statements in both versions
pkcs7unpad(a) ==
    IF Len(a) % BS # 0 \/ Len(a) = 0
    THEN [thrown |-> "input must be a positive multiple of the block size", out |-> Unset]
    ELSE LET bi == a[Len(a)]
         IN IF bi = 0 \/ bi > 16
            THEN [thrown |-> "pkcs#5 padding corrupt", out |-> Unset]
            ELSE IF [i \in 1..bi |-> bi] # SubSeq(a, Len(a) - bi + 1, Len(a))
            THEN [thrown |-> "pkcs#5 padding corrupt", out |-> Unset]
            ELSE [thrown |-> "", out |-> Val(SubSeq(a, 1, Len(a) - bi))]

\* data of one byte value, and data of zeros that ends with the byte 2
PadInputs ==
    {[i \in 1..n |-> v] : n \in 0..MaxPadLen, v \in {0, 1, 3, 16, 17}}
    \cup {[i \in 1..n |-> IF i = n THEN 2 ELSE 0] : n \in 1..MaxPadLen}

PadInit ==
    /\ subject \in [version : {"lib", "browser"}, a : PadInputs]
    /\ returned = None
    /\ CodecIdle
    /\ CallIdle
    /\ ObjIdle
    /\ CliIdle

Pad ==
    /\ returned = None
    /\ returned' = [op |-> "pad", arg |-> subject.a, thrown |-> "",
                    out |-> Val(pkcs7padOf(subject.version, subject.a))]
    /\ UNCHANGED <<subject, codecVars, callVars, objVars, cliVars>>

\* unpad of the data given, or of what pad has returned for it
Unpad ==
    /\ \/ returned = None
       \/ returned # None /\ returned.op = "pad"
    /\ LET arg == IF returned = None THEN subject.a ELSE returned.out.v
           r == pkcs7unpad(arg)
       IN returned' = [op |-> IF returned = None THEN "unpad" ELSE "pad, unpad",
                       arg |-> arg, thrown |-> r.thrown, out |-> r.out]
    /\ UNCHANGED <<subject, codecVars, callVars, objVars, cliVars>>

PadNext ==
    \/ Pad
    \/ Unpad

SpecPadding == PadInit /\ [][PadNext]_vars

(***************************************************************************)
(* eb.padding.pkcs15 on byte-aligned data.  The bytes pad draws for block   *)
(* type 2 are the low bytes of the words of sjcl.random, given here as the  *)
(* sequence that the generator repeats.                                     *)
(***************************************************************************)
BlockLen == 16   \* blockLength in bytes

\* the first psLen bytes other than zero drawn from position j on
RECURSIVE randomPs(_, _, _)
randomPs(random, psLen, j) ==
    LET curByte == random[(j % Len(random)) + 1]
    IN IF psLen = 0 THEN <<>>
       ELSE IF curByte = 0 THEN randomPs(random, psLen, j + 1)
       ELSE <<curByte>> \o randomPs(random, psLen - 1, j + 1)

\* eb.padding.pkcs15.pad(a, blockLength, bt)
pkcs15pad(a, blockLength, bt, random) ==
    LET blb == Len(a)
        psLen == blockLength - 3 - blb
        ps == CASE bt = 1 -> [i \in 1..psLen |-> 255]
                [] bt = 2 -> randomPs(random, psLen, 0)
                [] OTHER -> [i \in 1..psLen |-> 0]
    IN IF blb = 0
       THEN [thrown |-> "input type has to have be byte padded", out |-> Unset]
       ELSE IF bt \notin {0, 1, 2}
       THEN [thrown |-> "invalid BT size", out |-> Unset]
       ELSE IF blb + 3 > blockLength
       THEN [thrown |-> "data to pad is too big for the padding block length", out |-> Unset]
       ELSE [thrown |-> "", out |-> Val(<<0, bt>> \o ps \o <<0>> \o a)]

\* an unpad that takes any byte for 0xFF
ffCorrectAny(a, lastRead) == TRUE

\* unpad, bt == 1: no byte read by the loop is other than 0x00 and 0xFF
ffCorrect(a, lastRead) == \A i \in 2..lastRead : a[i + 1] \in {0, 255}

\* eb.padding.pkcs15.unpad(a)
pkcs15unpad(a) ==
    LET blb == Len(a)
        bt == a[2]
        nonNull == {i \in 2..(blb - 1) : a[i + 1] # 0}
        nulls == {i \in 2..(blb - 1) : a[i + 1] = 0}
        dataPosStart == CASE bt = 0 -> IF nonNull = {} THEN -1 ELSE Min(nonNull)
                          [] OTHER -> IF nulls = {} THEN -1 ELSE Min(nulls) + 1
        lastRead == IF nulls = {} THEN blb - 1 ELSE Min(nulls)
    IN IF blb < 3 \/ a[1] # 0
       THEN [thrown |-> "data size block is invalid", out |-> Unset]
       ELSE IF bt \notin {0, 1, 2}
       THEN [thrown |-> "Padding data error, BT is outside of the definition set",
             out |-> Unset]
       ELSE IF bt = 1 /\ ~ffCorrect(a, lastRead)
       THEN [thrown |-> "Trail of 0xFF in padding contains also unexpected characters",
             out |-> Unset]
       ELSE IF dataPosStart < 0 \/ dataPosStart > blb
       THEN [thrown |-> "Padding could not be parsed", out |-> Unset]
       ELSE [thrown |-> "", out |-> Val(SubSeq(a, dataPosStart + 1, blb))]

\* blocks to unpad: a block type, up to three padding bytes, and an end
Pkcs15Blocks ==
    {<<first, bt>> \o ps \o end :
        first \in {0, 1}, bt \in 0..3,
        ps \in UNION {[1..n -> {255, 7}] : n \in 0..2},
        end \in {<<>>, <<0>>, <<0, 5>>, <<0, 5, 0, 255>>}}

Pkcs15Init ==
    /\ subject \in
          [a : {[i \in 1..n |-> i - 1] : n \in 0..(BlockLen - 2)},
           blockLength : {BlockLen}, bt : {Undefined} \cup {NumVal(t) : t \in 0..3},
           random : {<<0, 7, 0, 0, 255, 1>>}]
          \cup [a : Pkcs15Blocks, blockLength : {0}, bt : {Undefined}, random : {<<9>>}]
    /\ returned = None
    /\ CodecIdle
    /\ CallIdle
    /\ ObjIdle
    /\ CliIdle

Pkcs15Pad ==
    /\ returned = None
    /\ subject.blockLength > 0
    /\ LET bt == IF subject.bt = Undefined THEN 0 ELSE subject.bt.n
           r == pkcs15pad(subject.a, subject.blockLength, bt, subject.random)
       IN returned' = [op |-> "pad", arg |-> subject.a, bt |-> bt,
                       thrown |-> r.thrown, out |-> r.out]
    /\ UNCHANGED <<subject, codecVars, callVars, objVars, cliVars>>

\* unpad of a block given, or of the block pad has returned
Pkcs15Unpad ==
    /\ \/ returned = None /\ subject.blockLength = 0
       \/ returned # None /\ returned.op = "pad" /\ returned.out.set
    /\ LET arg == IF returned = None THEN subject.a ELSE returned.out.v
           r == pkcs15unpad(arg)
       IN returned' = [op |-> IF returned = None THEN "unpad" ELSE "pad, unpad",
                       arg |-> arg, bt |-> IF returned = None THEN -1 ELSE returned.bt,
                       thrown |-> r.thrown, out |-> r.out]
    /\ UNCHANGED <<subject, codecVars, callVars, objVars, cliVars>>

Pkcs15Next ==
    \/ Pkcs15Pad
    \/ Pkcs15Unpad

SpecPkcs15 == Pkcs15Init /\ [][Pkcs15Next]_vars

(***************************************************************************)
(* sjcl.misc.hmac_cbc.mac with eb.padding.empty on byte-aligned data of     *)
(* every length up to MaxMacLen.  mac has no throw statement: the loop      *)
(* runs over the whole blocks and the chaining value is returned.           *)
(***************************************************************************)
MaxMacLen == 49

MacInit ==
    /\ subject \in [key : {1, 2}, data : {UserData(n) : n \in 0..MaxMacLen}]
    /\ returned = None
    /\ CodecIdle
    /\ CallIdle
    /\ ObjIdle
    /\ CliIdle

Mac ==
    /\ returned = None
    /\ returned' = [thrown |-> "", mac |-> hmacCbcMac(subject.key, subject.data)]
    /\ UNCHANGED <<subject, codecVars, callVars, objVars, cliVars>>

SpecMac == MacInit /\ [][Mac]_vars

(***************************************************************************)
(* generalHotpParser.parse applied once, to a new response object: the      *)
(* answers of the HSM, and one with a byte after the status.                *)
(***************************************************************************)
StrictInit ==
    /\ subject \in [hsm : HsmAnswers
                          \cup {[h EXCEPT !.damage = "trail"] :
                                   h \in {a \in HsmAnswers : a.damage = "tag"}},
                    options : ParseOptions]
    /\ returned = None
    /\ CodecIdle
    /\ CallIdle
    /\ ObjIdle
    /\ CliIdle

HotpParse ==
    /\ returned = None
    /\ returned' = generalHotpParse(hsmData(subject.hsm), NewHotpResponse, subject.options)
    /\ UNCHANGED <<subject, codecVars, callVars, objVars, cliVars>>

SpecStrict == StrictInit /\ [][HotpParse]_vars

(***************************************************************************)
(* eb.comm.createUO.templateFiller.build on the bits of a template.  A bit  *)
(* array is the sequence of its bits, most significant first; a key is      *)
(* given as keys[type].key.                                                *)
(***************************************************************************)
SlotLen == 4   \* bit length of the key slots of the templates filled

TplLen == 32   \* bit length of the templates filled

\* sjcl.bitArray.bitSlice(a, bstart, bend), bend undefined: to the end
bitSlice(a, bstart, bend) ==
    SubSeq(a, bstart + 1, IF bend = Undefined THEN Len(a)
                          ELSE IF bend.n < Len(a) THEN bend.n ELSE Len(a))

\* sjcl.bitArray.extract(a, bstart, blength): the bits as a number
RECURSIVE extract(_, _, _)
extract(a, bstart, blength) ==
    IF blength = 0 THEN 0
    ELSE 2 * extract(a, bstart, blength - 1)
         + (IF bstart + blength <= Len(a) THEN a[bstart + blength] ELSE 0)

\* sjcl.bitArray.partial(len, x): the low len bits of x as a bit array
partial(len, x) == [i \in 1..len |-> Bit(x, len - i)]

\* eb.misc.replacePart
replacePart(buffer, offsetStartBit, offsetEndBit, replacement) ==
    LET ba == bitSlice(buffer, 0, NumVal(offsetStartBit)) \o replacement
    IN ba \o bitSlice(buffer, offsetEndBit, Undefined)

\* eb.misc.transformPart
transformPart(buffer, offsetStartBit, offsetEndBit, fction) ==
    LET slice == bitSlice(buffer, offsetStartBit, NumVal(offsetEndBit))
        ba == bitSlice(buffer, 0, NumVal(offsetStartBit)) \o fction[slice]
    IN ba \o bitSlice(buffer, offsetEndBit, Undefined)

\* the function build hands to transformPart: num &= ~0x8, and
\* num &= ~0x10 when an application key was patched in
resetFlags(appKeyProvided) ==
    [x \in [1..8 -> {0, 1}] |->
        LET num == extract(x, 0, 8)
            n1 == num - 8 * Bit(num, 3)
            n2 == IF appKeyProvided THEN n1 - 16 * Bit(n1, 4) ELSE n1
        IN partial(8, n2)]

\* the loop of build over keyoffsets, from entry i on: an entry whose key
\* is not given is skipped, and so is one whose key has another bit length
\* than the slot; else the key replaces the bits of the slot
RECURSIVE fillKeys(_, _, _, _, _)
fillKeys(keysOffset, givenKeys, i, ba, appKeyProvided) ==
    IF i > Len(keysOffset)
    THEN [ba |-> ba, appKeyProvided |-> appKeyProvided, threw |-> FALSE]
    ELSE LET cKeyOff == keysOffset[i]
         IN IF cKeyOff.type \notin DOMAIN givenKeys
            THEN fillKeys(keysOffset, givenKeys, i + 1, ba, appKeyProvided)
            ELSE LET cKeyVal == givenKeys[cKeyOff.type].key
                 IN IF Len(cKeyVal) # cKeyOff.length
                    THEN fillKeys(keysOffset, givenKeys, i + 1, ba, appKeyProvided)
                    ELSE fillKeys(keysOffset, givenKeys, i + 1,
                             replacePart(ba, cKeyOff.offset,
                                         cKeyOff.offset + cKeyOff.length, cKeyVal),
                             appKeyProvided \/ cKeyOff.type = "app")

\* the second patching step of build: the flag byte after flagoffset
patchFlags(template, filled) ==
    transformPart(filled.ba, template.flagoffset + 8, template.flagoffset + 16,
                  resetFlags(filled.appKeyProvided))

\* templateFiller.build(options): the keys are patched in, the flags are
\* reset, the template is cut at encryptionoffset, the part after it is
\* encrypted under a new TEK, all of it MACed under a new TMK, and
\* objectid, TEK and TMK are wrapped for the best import key, which throws
\* when the template names no import key
fillerBuild(template, givenKeys, r) ==
    LET filled == fillKeys(template.keyoffsets, givenKeys, 1, template.template, FALSE)
        ba == patchFlags(template, filled)
        baPlain == bitSlice(ba, 0, NumVal(template.encryptionoffset))
        baProtected == bitSlice(ba, template.encryptionoffset, Undefined)
        tek == Random(r + 1)
        tmk == Random(r + 2)
        iKey == getBestImportKey(template.importkeys)
    IN IF filled.threw
       THEN [thrown |-> "Key bitLength does not match", patched |-> None, uo |-> None]
       ELSE IF iKey = None
       THEN [thrown |-> "undefined import key", patched |-> ba, uo |-> None]
       ELSE [thrown |-> "", patched |-> ba,
             uo |-> [a1 |-> <<template.objectid, tek, tmk>>,
                     a2 |-> [plain |-> baPlain,
                             encrypted |-> [key |-> tek, data |-> baProtected],
                             mac |-> tmk],
                     keyUsed |-> iKey.id]]

\* the bits a template or a key is made of
BitPatterns(len) ==
    {[i \in 1..len |-> 0], [i \in 1..len |-> 1], [i \in 1..len |-> i % 2]}

\* where the templates keep the flags and the slots of the two keys
Layouts ==
    {[flagoffset |-> 0, encryptionoffset |-> 16,
      keyoffsets |-> <<[type |-> "comenc", offset |-> 17, length |-> SlotLen],
                       [type |-> "app", offset |-> 18 + SlotLen, length |-> SlotLen]>>],
     [flagoffset |-> 16, encryptionoffset |-> 8,
      keyoffsets |-> <<[type |-> "app", offset |-> 1, length |-> SlotLen],
                       [type |-> "comenc", offset |-> 3 + SlotLen, length |-> SlotLen]>>]}

FillerTemplates ==
    {[objectid |-> 1, template |-> t, flagoffset |-> l.flagoffset,
      encryptionoffset |-> l.encryptionoffset, keyoffsets |-> l.keyoffsets,
      importkeys |-> ik] :
        t \in BitPatterns(TplLen), l \in Layouts,
        ik \in {<<[id |-> 8, type |-> "rsa2048"]>>, <<>>}}

\* a key of the slot's length, one bit shorter or one bit longer
KeyValues ==
    UNION {BitPatterns(len) : len \in {SlotLen - 1, SlotLen, SlotLen + 1}}

\* options.keys: each of the two keys is given or not
FillerKeys ==
    {<<>>}
    \cup {[comenc |-> [key |-> k]] : k \in KeyValues}
    \cup {[app |-> [key |-> k]] : k \in KeyValues}
    \cup {[comenc |-> [key |-> k], app |-> [key |-> a]] : k \in KeyValues, a \in KeyValues}

FillerInit ==
    /\ subject \in [template : FillerTemplates, keys : FillerKeys]
    /\ returned = None
    /\ CodecIdle
    /\ CallIdle
    /\ ObjIdle
    /\ CliIdle

FillerBuild ==
    /\ returned = None
    /\ returned' = fillerBuild(subject.template, subject.keys, 0)
    /\ UNCHANGED <<subject, codecVars, callVars, objVars, cliVars>>

SpecFiller == FillerInit /\ [][FillerBuild]_vars

(***************************************************************************)
(* Properties of the ProcessData codec                                     *)
(***************************************************************************)
\* C1: a request sent through the loopback service and parsed with the same
\* keys gives protectedData equal to the userData, userObjectID equal to
\* the UOid and a demangled nonce equal to the nonce of the request
C1_RoundTrip ==
    (env = "loopback" /\ ppc = "end") =>
        /\ hook.fired = "done"
        /\ resp.protectedData = Val(input.requestData)
        /\ resp.userObjectID = input.userObjectId
        /\ resp.nonce = Val(hexToBits(input.nonce))

\* C2: after one bit of CT or of TAG of a valid response is flipped the
\* parser fails with a corrupt error, no protectedData is set in the
\* response object and the done hook is not invoked
C2_MacRejection ==
    env \in {"flipCT", "flipTAG"} =>
        /\ ppc \notin {"decrypt", "flag", "returned"}
        /\ resp.protectedData = Unset
        /\ hook.fired # "done"
        /\ ppc = "end" =>
              /\ thrown.type = "corrupt"
              /\ hook = [fired |-> "fail", failType |-> PDATA_FAIL_RESPONSE_PARSING]

C2_Witness ==
    /\ env = "flipCT"
    /\ ppc = "end"
    /\ thrown = Corrupt("Padding is not valid")
    /\ hook.fired = "fail"

\* C3: decryption starts only after the CBC-MAC over CT was computed and
\* found equal to TAG, and when the comparison fails neither the
\* decryption nor the unpad check is performed
C3_MacBeforeDecrypt ==
    /\ (ppc \in {"decrypt", "flag"} \/ \E i \in DOMAIN ops : ops[i] \in {"decrypt", "unpad"}) =>
          /\ ops # <<>>
          /\ ops[1] = "mac"
          /\ resp.mac.set /\ resp.computedMac.set
          /\ resp.mac.v = resp.computedMac.v
    /\ (resp.computedMac.set /\ resp.mac.v # resp.computedMac.v) =>
          /\ ops = <<"mac">>
          /\ ppc \in {"thrown", "end"}

C3_Witness ==
    /\ ops = <<"mac", "decrypt", "unpad">>
    /\ resp.mac.v = resp.computedMac.v
    /\ hook.fired = "done"

\* C4: the done hook fires only for a response whose demangled nonce is the
\* freshness nonce of the request and whose echoed UOid is the UOid of the
\* request
C4_ResponseBinding ==
    hook.fired = "done" =>
        /\ resp.nonce = Val(hexToBits(input.nonce))
        /\ WordToBytes(resp.userObjectID) = WordToBytes(input.userObjectId)

C6_UoRecord ==
    (last.kind = "CreateUserObject" /\ last.outcome = "ok") =>
        /\ promise.state = "resolved"
        /\ \E h \in Handles :
              /\ promise.value.uo.uoId = h.uoId
              /\ promise.value.uo.uoType = h.uoType
              /\ promise.value.uo.apiKey = h.apiKey
        /\ {"comenc", "commac"} \subseteq DOMAIN request.data.object.keys
        /\ promise.value.uo.encKey = request.data.object.keys["comenc"]
        /\ promise.value.uo.macKey = request.data.object.keys["commac"]

\* C7: a retry is scheduled only for a connection failure or a parse
\* failure, and a response with a status other than 0x9000 is surfaced to
\* the caller at once
C7_RetryTriggers ==
    /\ last.effect = "retry" =>
          last.failType \in {PDATA_FAIL_CONNECTION, PDATA_FAIL_RESPONSE_PARSING}
    /\ last.failType = PDATA_FAIL_RESPONSE_FAILED =>
          /\ last.effect = "reject"
          /\ timer = "none"

\* C8: a rejection of createUO.call for exhausted retries is tagged phase 1
\* only when no template was fetched and phase 2 only when one was
C8_PhaseTagging ==
    (client = "createUO" /\ valid /\ promise.state = "rejected") =>
        /\ promise.value.phase \in {1, 2}
        /\ promise.value.phase = 1 => fetched = {}
        /\ promise.value.phase = 2 => fetched # {}

\* C9: while stage 2 runs the attempts counted by the retry handler are the
\* failed CreateUserObject exchanges in a row, whatever number of template
\* exchanges failed before; the count is zero when stage 2 starts, and a
\* phase 2 rejection comes after exactly maxAttempts + 1 of them
C9_IndependentBudgets ==
    /\ (request # None /\ request.kind = "CreateUserObject" /\ promise.state = "pending") =>
          attempts = failures.imp
    /\ last.effect = "stage2" => attempts = 0
    /\ (promise.state = "rejected" /\ valid /\ promise.value.phase = 2) =>
          failures.imp = maxAttempts + 1

C9_Witness ==
    /\ promise.state = "rejected"
    /\ valid
    /\ promise.value.phase = 2
    /\ failures.tpl > 0

\* C10: a call that has not settled and was not cancelled has a request in
\* flight or a retry timer pending; without either nothing is left that
\* could settle it
C10_EveryCallSettles ==
    (promise.state = "pending" /\ cancelled.when = "no") => (flight \/ timer # "none")

\* C11: with maxAttempts = N the failure is surfaced after N failed attempts
\* of a stage, and processData.call sends at most N requests and
\* createUO.call at most N in each of its two stages
C11_BoundedAttempts ==
    (valid /\ cancelled.when = "no") =>
        /\ client = "processData" => sent <= maxAttempts
        /\ client = "createUO" =>
              /\ sent <= 2 * maxAttempts
              /\ failures.tpl >= maxAttempts => promise.state = "rejected"
              /\ failures.imp >= maxAttempts => promise.state = "rejected"

\* C12: once cancel() was called with a retry timer pending, the thunk is
\* not run and no HTTP request is sent any more
C12_CancelPendingTimer ==
    cancelled.when = "timer" =>
        /\ timer = "none"
        /\ ~flight
        /\ sent = cancelled.sent

C12_Witness ==
    /\ cancelled.when = "timer"
    /\ cancelled.sent >= 2
    /\ promise.state = "pending"

\* C13: once cancel() was called with a request in flight, the response to
\* that request does not resolve the promise, no further request is sent
\* (stage 2 is not started) and no retry is scheduled
C13_CancelInFlight ==
    cancelled.when = "flight" =>
        /\ promise.state # "resolved"
        /\ sent = cancelled.sent
        /\ timer = "none"

\* C14: for every request type the connector signals ConnectionFailure (1)
\* exactly for transport errors, ResponseFailed (2) whenever the body carries
\* status and function with a status other than 0x9000, with or without a
\* result field, and ParseFailure (3) only when parsing fails
C14_FailureClassification ==
    LET expected == CASE last.outcome = "conn" -> PDATA_FAIL_CONNECTION
                      [] last.outcome \in {"failed", "noresult"} -> PDATA_FAIL_RESPONSE_FAILED
                      [] OTHER -> PDATA_FAIL_RESPONSE_PARSING
    IN (last.outcome \in Outcomes \ {"ok"}) =>
          /\ last.failType = expected
          /\ \A kind \in RequestTypes : failTypeOf(kind, last.outcome) = expected

\* C15: when the response deviates from the format (CT not a multiple of 16
\* bytes, TAG not 16 bytes, MAC mismatch, invalid PKCS#7 tail, first byte of
\* the frame not 0xF1) parse raises a corrupt error, and protectedData,
\* plainData, nonce and userObjectID of the response object keep their
\* initial values
C15_NoPartialData ==
    env \in {"shortCT", "shortTAG", "flipCT", "flipTAG", "badPad", "badFlag"} =>
        /\ ppc # "returned"
        /\ resp.protectedData = NewResponse.protectedData
        /\ resp.plainData = NewResponse.plainData
        /\ resp.nonce = NewResponse.nonce
        /\ resp.userObjectID = NewResponse.userObjectID
        /\ ppc \in {"thrown", "end"} => thrown.type = "corrupt"

C15_Witness ==
    /\ env = "badFlag"
    /\ ppc = "end"
    /\ thrown = Corrupt("Given data packet is not a response (flag mismatch)")
    /\ resp.computedMac = resp.mac

\* C16: for a response whose status is not 0x9000 parse returns the response
\* object carrying the status and stops: nothing is hex decoded, no MAC is
\* computed, nothing is decrypted, and mac, computedMac, plainData,
\* protectedData and nonce stay unset although the body is well formed
C16_FailedStatusShortCircuit ==
    (env = "failed" /\ ppc # "idle") =>
        /\ ppc \in {"returned", "end"}
        /\ thrown = NoThrow
        /\ ops = <<>>
        /\ resp = [NewResponse EXCEPT !.statusCode = rawResponse.status]
        /\ hook.fired # "done"

C16_Witness ==
    /\ env = "failed"
    /\ ppc = "end"
    /\ resp.statusCode = SW_STAT_INVALID_APIKEY
    /\ resp.mac = Unset
    /\ hook = [fired |-> "fail", failType |-> PDATA_FAIL_RESPONSE_FAILED]

(***************************************************************************)
(* Properties of objects built one after another                           *)
(***************************************************************************)
\* C17: the body of a GetUserObjectTemplate or CreateUserObject request
\* depends only on the request data given to its build and on the constant
\* defaults; the shared defaults records are unchanged after any sequence of
\* builds, so a field an earlier request set never appears in a later one
C17_NoSharedProvisioningState ==
    /\ defaults.tpl = TplDefaults
    /\ defaults.imp = ImpDefaults
    /\ built.kind = "GetUserObjectTemplate" => built.data = tplBody(TplDefaults, built.given)
    /\ built.kind = "CreateUserObject" => built.data = mergeInto(ImpDefaults, built.given)

\* C18: the authentication context built by a newHotpUserRequest and the
\* update record built by an updateAuthContextRequestBuilder depend only on
\* the options given to that object; an option that is left out takes the
\* documented default (user id 0000000000000001), never a value configured
\* on an earlier request object
C18_NoSharedHotpState ==
    /\ built.kind = "NewHotpUser" =>
          built.data = getCtxTemplate(mergeInto(HotpDefaults, built.given))
    /\ built.kind = "UpdateAuthContext" =>
          built.data = updateCtx(mergeInto(UpdDefaults, built.given))

C20_ReconfigurationWipes ==
    (out.kind # "none" /\ pd.config.input # Undefined) =>
        out = [kind |-> "sent",
               body |-> processDataBody(
                           requestConfigure(prepareConfigRequest(
                               pd.config, configuration, "endpointProcess")),
                           pd.config.input)]

(***************************************************************************)
(* Properties of handles, nonces and the request body                      *)
(***************************************************************************)
\* C21: parsing the handle made of an api key, a 32-bit uoId and a 32-bit
\* uoType gives back the api key and the eight hex digits of the uoId and of
\* the uoType; a handle made without a uoType carries the uoType 0
C21_HandleRoundTrip ==
    (returned # None /\ "parsed" \in DOMAIN returned /\ returned.parsed # None
        /\ subject.uoId # Undefined) =>
        returned.parsed =
            [thrown |-> "", apiKey |-> subject.apiKey,
             uoId |-> Str(sprintf08x(subject.uoId)),
             uoType |-> Str(sprintf08x(IF subject.uoType = Undefined THEN Num(0, 0)
                                       ELSE subject.uoType))]

\* an api key that holds "00" and eight hex digits was made into a handle
\* without a uoType, and the handle was parsed
C21_Witness ==
    /\ returned # None /\ "parsed" \in DOMAIN returned /\ returned.parsed # None
    /\ subject.apiKey = <<"k", "0", "0", "0", "0", "0", "0", "0", "0", "1", "3">>
    /\ subject.uoId = Num(32768, 1)
    /\ subject.uoType = Undefined
    /\ returned.parsed.thrown = ""

\* C22: demangling a mangled nonce of 1..16 bytes gives the nonce back, the
\* bytes of a final partial word included
C22_NonceDemangle ==
    (returned # None /\ "demangled" \in DOMAIN returned /\ returned.demangled # None) =>
        returned.demangled.bits = subject.nonce

\* C23: the builder gives no wire string for plain data of more than 0xFFFF
\* bytes; in a wire string it gives, the plain-length field is the four hex
\* digits of the number of plain data bytes, and those bytes follow it
C23_PlainLengthLimit ==
    (returned # None /\ "requestBase" \in DOMAIN returned /\ returned.requestBase # None) =>
        LET n == subject.plainData.bytes
            wire == returned.requestBase
        IN /\ n <= 65535
           /\ Len(wire.plainDataLength) = 4
           /\ hexToBits(wire.plainDataLength) = <<n \div 256, n % 256>>
           /\ wire.plainData.pairs = n

(***************************************************************************)
(* Properties of HOTP responses                                            *)
(***************************************************************************)
\* C24: when the answer to an authentication parses and its HSM status is
\* not 0x9000, subDone calls the fail hook and not the done hook, with a
\* response that holds the user context the HSM returned and has
\* hotpShouldUpdateCtx set
C24_FailedAuthDeliversCtx ==
    (returned # None /\ "hook" \in DOMAIN returned /\ returned.hook.fired # "none"
        /\ returned.hsm.damage = "none" /\ returned.thrown = ""
        /\ returned.hsm.status # SW_STAT_OK) =>
        /\ returned.hook.fired = "fail"
        /\ returned.hook.response.hotpUserCtx = Val(returned.hsm.userCtx)
        /\ returned.hook.response.hotpShouldUpdateCtx

\* a password authentication was answered with the status wrong code and a
\* user context of MaxCtxLen bytes, and the fail hook was called
C24_Witness ==
    /\ returned # None /\ "hook" \in DOMAIN returned
    /\ returned.hook.fired = "fail"
    /\ subject.auth.authMethod = TLV_TYPE_PASSWORDHASH
    /\ returned.hsm.damage = "none" /\ returned.thrown = ""
    /\ returned.hsm.status = SW_HOTP_WRONG_CODE
    /\ Len(returned.hsm.userCtx) = MaxCtxLen

\* C25: whenever parse raises an error, hotpShouldUpdateCtx and
\* hotpParsingSuccessful of the response are false, also for a response
\* object that an earlier parse had filled; they are true only after a parse
\* that read the whole TLV
C25_FlagsTrackParse ==
    (returned # None /\ "hook" \in DOMAIN returned /\ returned.hsm # None) =>
        /\ returned.thrown # "" =>
              /\ ~returned.response.hotpShouldUpdateCtx
              /\ ~returned.response.hotpParsingSuccessful
        /\ returned.thrown = "" =>
              /\ returned.response.hotpShouldUpdateCtx
              /\ returned.response.hotpParsingSuccessful

(***************************************************************************)
(* Properties of the createUO client                                       *)
(***************************************************************************)
\* C26: the type sent in every GetUserObjectTemplate attempt has bit 20 set
\* exactly when the client holds comenc and commac, bit 21 set exactly when
\* it holds an app key, and the other bits of the type the caller gave
C26_TypeKeyFlags ==
    (cu # None /\ cu.tplRequest.sent > 0) =>
        LET sentType == cu.tplRequest.type.s
            wanted == hexDigits(getUoType(cu.objType.n, hasCommKey(cu.keys),
                                          hasAppKey(cu.keys)))
        IN sentType = wanted

\* C27: the keys of a createUO client are never removed: this.keys always
\* holds every key the client was configured with, with its value, and the
\* blob of every CreateUserObject request, first attempt or retry, is filled
\* from these keys
C27_KeysKept ==
    (client = "createUO") =>
        \E c \in ConfiguredKeys :
            /\ keys # NoKeys
            /\ \A n \in DOMAIN c.k : n \in DOMAIN keys /\ keys[n] = c.k[n]
            /\ (request # None /\ request.kind = "CreateUserObject") =>
                  request.data.object.keys =
                      [n \in DOMAIN keys \cap tplResponse.keyoffsets |-> keys[n]]

\* C28: every CreateUserObject attempt of a createUO call uploads a blob
\* whose TEK and TMK were drawn from the generator for that attempt: they
\* are values no earlier draw of the call has returned, they differ from
\* each other, they are among the values drawn by the time the request is
\* sent, and they are the keys wrapped with the object id in the 0xA1 record
C28_TransportKeysSingleUse ==
    [][/\ (request' # None /\ request'.kind = "CreateUserObject") =>
             /\ request'.data.object.tek <= Random(rng')
             /\ request'.data.object.tmk <= Random(rng')
       /\ (sent' = sent + 1 /\ request' # None /\ request'.kind = "CreateUserObject") =>
             LET uo == request'.data.object
             IN /\ uo.tek > Random(rng)
                /\ uo.tmk > Random(rng)
                /\ uo.tek # uo.tmk
                /\ uo.wrapped = <<uo.objectid, uo.tek, uo.tmk>>]_vars

\* a second CreateUserObject attempt for the same template is in flight
C28_Witness ==
    /\ client = "createUO"
    /\ flight
    /\ request # None
    /\ request.kind = "CreateUserObject"
    /\ failures.imp >= 1
    /\ request.data.object.tek > Random(rng - 3)

\* C29: after the patching steps of templateFiller.build the template has
\* the bit length it had, the bits of the slot of every keyoffsets entry
\* whose key was supplied are that key, and every other bit, bits 3 and 4 of
\* the flag byte after flagoffset excepted, is the bit of the template
C29_PatchingExact ==
    (subject # None /\ "keys" \in DOMAIN subject /\ "template" \in DOMAIN subject
     /\ returned # None /\ returned.patched # None) =>
        LET t == subject.template
            supplied == {i \in DOMAIN t.keyoffsets :
                            t.keyoffsets[i].type \in DOMAIN subject.keys}
            slot(i) == (t.keyoffsets[i].offset + 1) ..
                       (t.keyoffsets[i].offset + t.keyoffsets[i].length)
            flagBits == {t.flagoffset + 16 - 3, t.flagoffset + 16 - 4}
        IN /\ Len(returned.patched) = Len(t.template)
           /\ \A i \in supplied :
                 SubSeq(returned.patched, t.keyoffsets[i].offset + 1,
                        t.keyoffsets[i].offset + t.keyoffsets[i].length)
                     = subject.keys[t.keyoffsets[i].type].key
           /\ \A b \in 1..Len(t.template) :
                 (b \notin flagBits /\ \A i \in supplied : b \notin slot(i)) =>
                     returned.patched[b] = t.template[b]

\* C30: when the bit length of a supplied key differs from the length of
\* its keyoffsets entry, templateFiller.build ends with an error and
\* returns no blob
C30_MismatchRejected ==
    (subject # None /\ "keys" \in DOMAIN subject /\ "template" \in DOMAIN subject
     /\ returned # None
     /\ \E i \in DOMAIN subject.template.keyoffsets :
           LET cKeyOff == subject.template.keyoffsets[i]
           IN /\ cKeyOff.type \in DOMAIN subject.keys
              /\ Len(subject.keys[cKeyOff.type].key) # cKeyOff.length) =>
        /\ returned.thrown # ""
        /\ returned.uo = None

\* C31: templateFiller.build clears bit 3 of the flag byte after flagoffset,
\* clears bit 4 when an application key was supplied and leaves bit 4 as the
\* template has it when none was; the other six bits of the byte are the
\* bits of the template
C31_GenerationFlags ==
    (subject # None /\ "keys" \in DOMAIN subject /\ "template" \in DOMAIN subject
     /\ returned # None /\ returned.patched # None) =>
        LET t == subject.template
            bit(ba, j) == ba[t.flagoffset + 16 - j]
        IN /\ bit(returned.patched, 3) = 0
           /\ bit(returned.patched, 4) =
                 IF "app" \in DOMAIN subject.keys THEN 0 ELSE bit(t.template, 4)
           /\ \A j \in (0..7) \ {3, 4} : bit(returned.patched, j) = bit(t.template, j)

\* C32: generalHotpParser.parse throws a corrupt error when the outer tag is
\* not 0xA3, when the inner tag is not the operation asked for, when the
\* method tag is not the one of the methods asked for, when the user id is
\* not the given one (the status is then 0xA0B6), and when the data does not
\* end with the 16 bits of the status; a response is returned only when all
\* of the data was read
C32_StrictParsing ==
    (subject # None /\ "hsm" \in DOMAIN subject /\ "options" \in DOMAIN subject
     /\ returned # None) =>
        LET h == subject.hsm
            o == subject.options
            data == hsmData(h)
            expected == IF hasMethod(o.methods, USERAUTH_FLAG_HOTP)
                        THEN USER_AUTH_TYPE_HOTP ELSE USER_AUTH_TYPE_PASSWD
            outerOk == h.damage # "tag"
            innerOk == o.tlvOp # Undefined /\ o.tlvOp.n = h.op.tlv
            userOk == o.userId = Undefined \/ h.damage # "user"
            methodOk == h.damage # "method" /\ h.op.type = expected
            lengthOk == h.damage \notin {"cut", "trail"}
        IN /\ ~(outerOk /\ innerOk /\ userOk /\ methodOk /\ lengthOk) => returned.thrown # ""
           /\ (o.tlvOp # Undefined /\ outerOk /\ innerOk /\ ~userOk) =>
                 /\ returned.thrown = "User ID mismatch"
                 /\ returned.response.hotpStatus = NumVal(SW_AUTH_MISMATCH_USER_ID)
           /\ returned.thrown = "" =>
                 /\ returned.offset = Len(data)
                 /\ returned.response.hotpParsingSuccessful

\* an answer with a byte after the status was refused
C32_Witness ==
    /\ subject # None
    /\ "hsm" \in DOMAIN subject
    /\ returned # None
    /\ subject.hsm.damage = "trail"
    /\ returned.thrown = "Data length invalid"

\* C33: sjcl.misc.hmac_cbc.mac refuses every input whose length is not a
\* positive multiple of 16 bytes: it returns no tag for the empty input nor
\* for an input that ends with a partial block
C33_MacInputCheck ==
    (subject # None /\ "data" \in DOMAIN subject /\ "key" \in DOMAIN subject
     /\ returned # None
     /\ (Len(subject.data) = 0 \/ Len(subject.data) % BS # 0)) =>
        returned.thrown # ""

\* C34: eb.padding.pkcs7.pad, in the library and in the browser, appends k
\* bytes of value k with k = 16 - (len mod 16), a whole block of sixteen
\* bytes 0x10 when len is a multiple of 16: the output is longer than the
\* input and a multiple of 16 bytes long
C34_Pkcs7Pad ==
    (subject # None /\ "version" \in DOMAIN subject
     /\ returned # None /\ returned.op = "pad") =>
        LET len == Len(subject.a)
            k == 16 - (len % 16)
        IN /\ returned.thrown = ""
           /\ returned.out.v = subject.a \o [i \in 1..k |-> k]
           /\ Len(returned.out.v) > len
           /\ Len(returned.out.v) % 16 = 0

\* C35: eb.padding.pkcs7.unpad throws a corrupt error unless the input is a
\* positive multiple of 16 bytes long, its last byte k is in 1..16 and its
\* last k bytes are all k; else it returns the input without its last k
\* bytes; unpad(pad(x)) is x
C35_Pkcs7Unpad ==
    (subject # None /\ "version" \in DOMAIN subject
     /\ returned # None /\ returned.op \in {"unpad", "pad, unpad"}) =>
        LET x == returned.arg
            len == Len(x)
            wellPadded == /\ len > 0
                          /\ len % 16 = 0
                          /\ x[len] >= 1
                          /\ x[len] <= 16
                          /\ \A i \in 1..len : i > len - x[len] => x[i] = x[len]
        IN /\ ~wellPadded => returned.thrown # "" /\ ~returned.out.set
           /\ wellPadded =>
                 /\ returned.thrown = ""
                 /\ returned.out = Val(SubSeq(x, 1, len - x[len]))
           /\ returned.op = "pad, unpad" =>
                 /\ returned.thrown = ""
                 /\ returned.out = Val(subject.a)

\* C36: eb.padding.pkcs15.pad(data, blockLen, BT) returns
\* 0x00, BT, PS, 0x00, data of blockLen bytes with PS of
\* blockLen - 3 - |data| >= 8 bytes, none of them 0x00 for BT = 2, and
\* fails when the data leaves fewer than 8 bytes for PS
C36_Pkcs15Pad ==
    (subject # None /\ "blockLength" \in DOMAIN subject
     /\ returned # None /\ returned.op = "pad") =>
        LET data == subject.a
            psLen == subject.blockLength - 3 - Len(data)
            eb == returned.out.v
        IN /\ psLen < 8 => returned.thrown # ""
           /\ returned.thrown = "" =>
                 /\ psLen >= 8
                 /\ Len(eb) = subject.blockLength
                 /\ eb[1] = 0
                 /\ eb[2] = returned.bt
                 /\ eb[psLen + 3] = 0
                 /\ SubSeq(eb, psLen + 4, Len(eb)) = data
                 /\ returned.bt = 2 => \A i \in 3..(psLen + 2) : eb[i] # 0

\* C37: eb.padding.pkcs15.unpad throws for a block of type 1 with a byte
\* other than 0xFF between the type byte and the first 0x00 after it, and
\* for one with no 0x00 after the type byte; of a block that pad has built
\* with type 1 or 2 it returns the data that was padded
C37_Pkcs15Unpad ==
    (subject # None /\ "blockLength" \in DOMAIN subject
     /\ returned # None /\ returned.op \in {"unpad", "pad, unpad"}) =>
        LET x == returned.arg
            ends == {i \in 3..Len(x) : x[i] = 0}
        IN /\ (Len(x) >= 3 /\ x[1] = 0 /\ x[2] = 1) =>
                 /\ ends = {} => returned.thrown # ""
                 /\ (ends # {} /\ \E i \in 3..Min(ends) - 1 : x[i] # 255) =>
                       returned.thrown # ""
           /\ (returned.op = "pad, unpad" /\ returned.bt \in {1, 2}) =>
                 /\ returned.thrown = ""
                 /\ returned.out = Val(subject.a)

\* a block of type 1 whose padding holds another byte than 0xFF before the
\* 0x00 was refused
C37_Witness ==
    /\ subject # None
    /\ "blockLength" \in DOMAIN subject
    /\ returned # None
    /\ returned.op = "unpad"
    /\ returned.arg = <<0, 1, 255, 7, 0, 5>>
    /\ returned.thrown = "Trail of 0xFF in padding contains also unexpected characters"

\* C38: for every HTTP exchange that is completed, one of the done hook and
\* the fail hook of the request is invoked, once: the fail hook is not
\* invoked for an exchange whose done hook was invoked
C38_OneOutcome ==
    last # NoExchange => last.hooks \in {<<"done">>, <<"fail">>}

====
